---------------------------- MODULE Spec2Model ----------------------------
(***************************************************************************)
(* Model of the METS-to-SIP transcoder of da_pipeline (mets_parser.py and  *)
(* pydantic_models.py).                                                    *)
(*                                                                         *)
(* Conventions                                                             *)
(*   - a Python str that the code inspects character by character (strip,  *)
(*     upper, lower, split, int, string interpolation into an XPath) is a  *)
(*     sequence of one-character strings; dictionary keys and XML names    *)
(*     that are only compared for equality are TLA+ strings;               *)
(*   - an Optional value is a sequence of length at most one: None is <<>> *)
(*     and a value v is <<v>>;                                             *)
(*   - the attributes of an XML element are a function from the names of   *)
(*     the attributes that are present to their values;                    *)
(*   - a Python dict is a function whose domain is its key set.            *)
(***************************************************************************)
EXTENDS Integers, Sequences, FiniteSets, TLC

----------------------------------------------------------------------------
(* Python built-ins used by the parser *)

None == <<>>

Some(v) == <<v>>

\* Element.get(name, default) / dict.get(key, default)
Get(f, k, default) == IF k \in DOMAIN f THEN f[k] ELSE default

\* dict.get(key): None when the key is missing
GetOpt(f, k) == IF k \in DOMAIN f THEN Some(f[k]) ELSE None

\* {**a, **b}
DictMerge(a, b) == [k \in (DOMAIN a) \cup (DOMAIN b) |-> IF k \in DOMAIN b THEN b[k] ELSE a[k]]

\* d[k] = v
DictSet(d, k, v) == [x \in (DOMAIN d) \cup {k} |-> IF x = k THEN v ELSE d[x]]

EmptyDict == [x \in {} |-> x]

IsSpace(c) == c \in {" ", "\t", "\n"}

LowerLetters == <<"a","b","c","d","e","f","g","h","i","j","k","l","m",
                  "n","o","p","q","r","s","t","u","v","w","x","y","z">>

UpperLetters == <<"A","B","C","D","E","F","G","H","I","J","K","L","M",
                  "N","O","P","Q","R","S","T","U","V","W","X","Y","Z">>

UpperChar(c) == IF \E i \in 1..26 : LowerLetters[i] = c
                THEN UpperLetters[CHOOSE i \in 1..26 : LowerLetters[i] = c]
                ELSE c

LowerChar(c) == IF \E i \in 1..26 : UpperLetters[i] = c
                THEN LowerLetters[CHOOSE i \in 1..26 : UpperLetters[i] = c]
                ELSE c

\* str.lower() where line 279 calls str.upper()
Upper_AsLower(s) == [i \in 1..Len(s) |-> LowerChar(s[i])]

\* str.upper()
Upper(s) == [i \in 1..Len(s) |-> UpperChar(s[i])]

\* str.lower()
Lower(s) == [i \in 1..Len(s) |-> LowerChar(s[i])]

\* str.strip()
Strip(s) ==
    LET keep == {i \in 1..Len(s) : ~IsSpace(s[i])}
    IN  IF keep = {} THEN <<>>
        ELSE LET lo == CHOOSE i \in keep : \A j \in keep : i <= j
                 hi == CHOOSE i \in keep : \A j \in keep : j <= i
             IN  SubSeq(s, lo, hi)

\* str.split(): the maximal runs of non-whitespace characters, in order
RECURSIVE SplitFrom(_, _, _)
SplitFrom(s, i, cur) ==
    IF i > Len(s) THEN (IF cur = <<>> THEN <<>> ELSE <<cur>>)
    ELSE IF IsSpace(s[i])
         THEN (IF cur = <<>> THEN <<>> ELSE <<cur>>) \o SplitFrom(s, i + 1, <<>>)
         ELSE SplitFrom(s, i + 1, Append(cur, s[i]))

Split(s) == SplitFrom(s, 1, <<>>)

StartsWithAt(s, i, pat) ==
    /\ i + Len(pat) - 1 <= Len(s)
    /\ \A j \in 1..Len(pat) : s[i + j - 1] = pat[j]

\* str.replace(old, new) for a non-empty old: every non-overlapping
\* occurrence, scanning left to right
RECURSIVE ReplaceFrom(_, _, _, _)
ReplaceFrom(s, i, old, new) ==
    IF i > Len(s) THEN <<>>
    ELSE IF StartsWithAt(s, i, old)
         THEN new \o ReplaceFrom(s, i + Len(old), old, new)
         ELSE <<s[i]>> \o ReplaceFrom(s, i + 1, old, new)

Replace(s, old, new) == ReplaceFrom(s, 1, old, new)

Digits == <<"0","1","2","3","4","5","6","7","8","9">>

IsDigit(c) == \E i \in 1..10 : Digits[i] = c

DigitVal(c) == (CHOOSE i \in 1..10 : Digits[i] = c) - 1

RECURSIVE DigitsValue(_, _)
DigitsValue(s, acc) ==
    IF s = <<>> THEN acc
    ELSE IF Head(s) = "_" THEN DigitsValue(Tail(s), acc)
         ELSE DigitsValue(Tail(s), 10 * acc + DigitVal(Head(s)))

\* the text int() accepts after stripping: an optional sign, then digits
\* with single underscores allowed between digits (ASCII input)
IntBody(s) == IF s # <<>> /\ s[1] \in {"+", "-"} THEN Tail(s) ELSE s

IntLiteralOk(s) ==
    LET b == IntBody(Strip(s))
    IN  /\ b # <<>>
        /\ IsDigit(b[1])
        /\ IsDigit(b[Len(b)])
        /\ \A i \in 1..Len(b) : IsDigit(b[i]) \/ b[i] = "_"
        /\ \A i \in 1..(Len(b) - 1) : ~(b[i] = "_" /\ b[i + 1] = "_")

\* int(str) for a string IntLiteralOk accepts (ValueError otherwise)
IntValue(s) ==
    LET t == Strip(s)
        v == DigitsValue(IntBody(t), 0)
    IN  IF t[1] = "-" THEN 0 - v ELSE v

----------------------------------------------------------------------------
(* Outcomes of a call: a returned value or a raised exception *)

Ok(v) == [ok |-> TRUE, val |-> v]

Raise(e, m) == [ok |-> FALSE, exc |-> e, msg |-> m]

----------------------------------------------------------------------------
(* String literals of the source *)

S_ie_dmd == <<"i","e","-","d","m","d">>

S_ie_amd == <<"i","e","-","a","m","d">>

S_SIP == <<"S","I","P","-">>

S_IE == <<"I","E","-">>

S_Unknown == <<"U","n","k","n","o","w","n">>

S_unknown == <<"u","n","k","n","o","w","n">>

S_Untitled == <<"U","n","t","i","t","l","e","d">>

S_rep_unknown == <<"r","e","p","-","u","n","k","n","o","w","n">>

S_Representation == <<"R","e","p","r","e","s","e","n","t","a","t","i","o","n"," ">>

S_octet_stream == <<"a","p","p","l","i","c","a","t","i","o","n","/",
                    "o","c","t","e","t","-","s","t","r","e","a","m">>

----------------------------------------------------------------------------
(* pydantic_models.py *)

\* FixityType: the values of the enumeration
FixityType == { <<"M","D","5">>, <<"S","H","A","-","1">>,
                <<"S","H","A","-","2","5","6">>, <<"S","H","A","-","5","1","2">> }

\* RepresentationType: the values of the enumeration
PRESERVATION == <<"p","r","e","s","e","r","v","a","t","i","o","n">>

ACCESS == <<"a","c","c","e","s","s">>

ORIGINAL == <<"o","r","i","g","i","n","a","l">>

RepresentationType == {PRESERVATION, ACCESS, ORIGINAL}

\* Enum lookup by value: FixityType(s), RepresentationType(s)
EnumLookup(enum, s) == IF s \in enum THEN Ok(s) ELSE Raise("ValueError", "enum")

\* FixityModel(fixity_type, fixity_value, file_id): constr(min_length=1)
FixityModel(t, v, fid) ==
    IF t \in FixityType /\ Len(v) >= 1
    THEN Ok([fixity_type |-> t, fixity_value |-> v, file_id |-> fid])
    ELSE Raise("ValidationError", "FixityModel")

\* FileModel(...): every field is typed str / int / list, none is constrained
FileModel(fid, label, mime, oname, opath, size, dmd, adm) ==
    Ok([file_id |-> fid, label |-> label, mime_type |-> mime,
        original_name |-> oname, original_path |-> opath,
        size_bytes |-> size, fixities |-> <<>>,
        dmd_ids |-> dmd, adm_ids |-> adm])

RepresentationModel(rid, label, utype, cdate) ==
    [rep_id |-> rid, label |-> label, usage_type |-> utype,
     files |-> <<>>, creation_date |-> cdate]

\* DublinCore(...): every field defaults to the empty list
DublinCore(title, creator, type, identifier, rights) ==
    [title |-> title, creator |-> creator, type |-> type,
     identifier |-> identifier, rights |-> rights]

EmptyDublinCore == DublinCore(<<>>, <<>>, <<>>, <<>>, <<>>)

\* the five fields of DublinCore
DublinCoreFields == {"title", "creator", "type", "identifier", "rights"}

IEModel(ieid, dc, etype, reps) ==
    [ie_id |-> ieid, dc |-> dc, ie_entity_type |-> etype, representations |-> reps]

SIPModel(sid, agent, cdate, ies) ==
    [sip_id |-> sid, submitting_agent |-> agent, creation_date |-> cdate,
     intellectual_entities |-> ies]

----------------------------------------------------------------------------
(* xml.etree.ElementTree as the parser uses it *)

\* Text of a str(uuid4()): the n-th identifier drawn in a run
UuidStr(n) == <<"u","u","i","d","-", Digits[(n % 10) + 1]>>

\* root.find / findall with the predicate [@ID="<value>"], the value pasted
\* between double quotes: a value holding a double quote ends the literal
\* early and the rest is no predicate ElementPath knows (SyntaxError or
\* KeyError, both Exception).  Values are drawn from letters, digits, "-",
\* blanks and the double quote.
XPathLiteralOk(value) == \A i \in 1..Len(value) : value[i] # "\""

\* the elements of seq whose attribute ID equals value, in document order
WithID(seq, value) ==
    SelectSeq(seq, LAMBDA el : "ID" \in DOMAIN el.attrs /\ el.attrs["ID"] = value)

\* amd_sec.find('.//mets:techMD'): the first techMD below the section
FindTechMD(amd_sec) ==
    IF amd_sec.techMDs = <<>> THEN None ELSE Some(amd_sec.techMDs[1].md)

\* amd_sec.find('mets:techMD'): the first techMD that is a child of the section
FindChildTechMD(amd_sec) ==
    LET direct == SelectSeq(amd_sec.techMDs, LAMBDA t : t.direct)
    IN  IF direct = <<>> THEN None ELSE Some(direct[1].md)

----------------------------------------------------------------------------
(* mets_parser.py *)

\* safe_get_text(element): element is an Optional element
safe_get_text(element) ==
    IF element # None /\ element[1].text # <<>>
    THEN Some(Strip(element[1].text))
    ELSE None

\* truth value of an Optional[str]
Truthy(opt) == opt # None /\ opt[1] # <<>>

\* opt or default
OrElse(opt, default) == IF Truthy(opt) THEN opt[1] ELSE default

\* the texts collected for one Dublin Core field of a dc:record
RECURSIVE DcFieldTexts(_, _)
DcFieldTexts(elements, field_name) ==
    IF elements = <<>> THEN <<>>
    ELSE LET element == Head(elements)
             text    == safe_get_text(Some(element))
             rest    == DcFieldTexts(Tail(elements), field_name)
         IN  IF element.tag = field_name /\ Truthy(text)
             THEN <<text[1]>> \o rest
             ELSE rest

\* the keys of dc_fields (the texts of "date" are parsed as dates; no date
\* reaches the returned record)
DcFieldNames == {"title", "creator", "subject", "description", "publisher",
                 "contributor", "date", "type", "format", "identifier",
                 "source", "language", "relation", "coverage", "rights"}

\* dmd_sec.find(mdWrap) -> find(xmlData) -> find(dc:record)
DcRecordOf(dmd_sec) ==
    IF dmd_sec.mdWrap = None THEN None
    ELSE IF dmd_sec.mdWrap[1].xmlData = None THEN None
         ELSE dmd_sec.mdWrap[1].xmlData[1].record

parse_dc_metadata(dmd_sec) ==
    LET dc_record == DcRecordOf(dmd_sec)
        dc_fields == [f \in DcFieldNames |->
                        IF dc_record # None THEN DcFieldTexts(dc_record[1], f) ELSE <<>>]
    IN  DublinCore(dc_fields["title"], dc_fields["creator"], <<>>, <<>>, dc_fields["rights"])

\* the keys of the records of one DNX section, folded into a dict
RECURSIVE DnxKeys(_, _)
DnxKeys(keys, result) ==
    IF keys = <<>> THEN result
    ELSE LET key_elem == Head(keys)
             key_id   == Get(key_elem.attrs, "id", "")
             value    == OrElse(safe_get_text(Some(key_elem)), <<>>)
         IN  DnxKeys(Tail(keys), IF key_id # "" THEN DictSet(result, key_id, value) ELSE result)

RECURSIVE DnxRecords(_, _)
DnxRecords(records, result) ==
    IF records = <<>> THEN result
    ELSE DnxRecords(Tail(records), DnxKeys(Head(records), result))

\* the dnx:dnx element below the first mdWrap of a techMD, when the mdWrap
\* has OTHERMDTYPE "dnx"
DnxOf(tech_md) ==
    IF tech_md.mdWrap = None THEN None
    ELSE IF Get(tech_md.mdWrap[1].attrs, "OTHERMDTYPE", "") # "dnx" THEN None
         ELSE IF tech_md.mdWrap[1].xmlData = None THEN None
              ELSE tech_md.mdWrap[1].xmlData[1].dnx

parse_dnx_section(tech_md, section_id) ==
    LET dnx_elem == DnxOf(tech_md)
        sections == IF dnx_elem = None THEN <<>>
                    ELSE SelectSeq(dnx_elem[1],
                                   LAMBDA s : Get(s.attrs, "id", "") = section_id)
    IN  IF sections = <<>> THEN EmptyDict
        ELSE DnxRecords(sections[1].records, EmptyDict)

\* int(file_data.get('fileSize', 0)) of line 252: 0 when the key is
\* missing, ValueError for a text that is no integer literal
IntOfFileSize(file_data) ==
    IF "fileSize" \notin DOMAIN file_data THEN Ok(0)
    ELSE IF IntLiteralOk(file_data["fileSize"]) THEN Ok(IntValue(file_data["fileSize"]))
         ELSE Raise("ValueError", "invalid literal for int()")

\* the size without the handler of lines 253-254
ParseSize_NoExcept(file_data) == IntOfFileSize(file_data)

\* lines 249-254: size_bytes, 0 when int() raises ValueError or TypeError
ParseSize(file_data) ==
    IF IntOfFileSize(file_data).ok THEN IntOfFileSize(file_data) ELSE Ok(0)

\* the fixity list parse_file_element builds from the fileFixity section of
\* the techMD of the amdSec the ADMID string names (lines 269-288)
ParseFixities(root, file_admid, file_id) ==
    IF file_admid = <<>> THEN Ok(<<>>)
    ELSE IF ~XPathLiteralOk(file_admid) THEN Raise("SyntaxError", "invalid predicate")
    ELSE LET found == WithID(root.amdSecs, file_admid)
             tech_md == IF found = <<>> THEN None ELSE FindTechMD(found[1])
             section == IF tech_md = None THEN EmptyDict
                        ELSE parse_dnx_section(tech_md[1], "fileFixity")
             fix_type == EnumLookup(FixityType, Upper(Get(section, "fixityType", <<>>)))
             fix_value == GetOpt(section, "fixityValue")
         IN  IF DOMAIN section = {} \/ ~fix_type.ok \/ ~Truthy(fix_value) THEN Ok(<<>>)
             ELSE LET fm == FixityModel(fix_type.val, fix_value[1], file_id)
                  IN  IF fm.ok THEN Ok(<<fm.val>>) ELSE Ok(<<>>)

\* parse_file_element resolving the section by the first identifier that
\* ADMID lists in place of the whole string
parse_file_element_FirstId(file_el, amd_map, root, uuid) ==
    LET file_id    == Get(file_el.attrs, "ID", uuid)
        file_dmdid == Get(file_el.attrs, "DMDID", <<>>)
        whole      == Get(file_el.attrs, "ADMID", <<>>)
        file_admid == IF Split(whole) = <<>> THEN whole ELSE Split(whole)[1]
        file_data  == Get(amd_map, file_admid, EmptyDict)
        size_bytes == ParseSize(file_data)
        file_model == FileModel(file_id,
                                Get(file_data, "label", file_id),
                                Get(file_data, "fileMIMEType", S_octet_stream),
                                Get(file_data, "fileOriginalName", file_id),
                                GetOpt(file_data, "fileOriginalPath"),
                                size_bytes.val,
                                Split(file_dmdid),
                                Split(whole))
        fixities   == ParseFixities(root, file_admid, file_id)
    IN  IF ~size_bytes.ok \/ ~file_model.ok \/ ~fixities.ok
        THEN Raise("METSParsingError", "Unexpected error parsing file element")
        ELSE Ok([file_model.val EXCEPT !.fixities = fixities.val])

\* parse_file_element(file_el, amd_map, root); uuid is the text the call of
\* str(uuid4()) on line 240 returns
parse_file_element(file_el, amd_map, root, uuid) ==
    LET file_id    == Get(file_el.attrs, "ID", uuid)
        file_dmdid == Get(file_el.attrs, "DMDID", <<>>)
        file_admid == Get(file_el.attrs, "ADMID", <<>>)
        file_data  == Get(amd_map, file_admid, EmptyDict)
        size_bytes == ParseSize(file_data)
        file_model == FileModel(file_id,
                                Get(file_data, "label", file_id),
                                Get(file_data, "fileMIMEType", S_octet_stream),
                                Get(file_data, "fileOriginalName", file_id),
                                GetOpt(file_data, "fileOriginalPath"),
                                size_bytes.val,
                                Split(file_dmdid),
                                Split(file_admid))
        fixities   == ParseFixities(root, file_admid, file_id)
    IN  IF ~size_bytes.ok
        THEN [Raise("METSParsingError", "Unexpected error parsing file element")
                EXCEPT !.msg = size_bytes.exc]
        ELSE IF ~file_model.ok
        THEN Raise("METSParsingError", "File model validation failed")
        ELSE IF ~fixities.ok
             THEN [Raise("METSParsingError", "Unexpected error parsing file element")
                     EXCEPT !.msg = fixities.exc]
             ELSE Ok([file_model.val EXCEPT !.fixities = fixities.val])

\* extract_sip_metadata(root, xml_path): <<sip_id, submitting_agent>>
extract_sip_metadata(root, stem) ==
    LET sip_id == Get(root.attrs, "OBJID", S_SIP \o stem)
        agent  == IF root.metsHdr = None THEN None ELSE root.metsHdr[1].creator
        name   == IF agent = None THEN None ELSE safe_get_text(agent[1].name)
    IN  <<sip_id, OrElse(name, S_Unknown)>>

\* the dmd_map loop of parse_metadata_sections
RECURSIVE DmdMap(_, _)
DmdMap(dmd_secs, dmd_map) ==
    IF dmd_secs = <<>> THEN dmd_map
    ELSE LET dmd_sec == Head(dmd_secs)
             dmd_id  == Get(dmd_sec.attrs, "ID", <<>>)
         IN  DmdMap(Tail(dmd_secs),
                    IF dmd_id # <<>>
                    THEN DictSet(dmd_map, dmd_id, parse_dc_metadata(dmd_sec))
                    ELSE dmd_map)

\* the amd_map loop of parse_metadata_sections
RECURSIVE AmdMap(_, _)
AmdMap(amd_secs, amd_map) ==
    IF amd_secs = <<>> THEN amd_map
    ELSE LET amd_sec == Head(amd_secs)
             amd_id  == Get(amd_sec.attrs, "ID", <<>>)
             tech_md == FindChildTechMD(amd_sec)
         IN  AmdMap(Tail(amd_secs),
                    IF amd_id # <<>> /\ tech_md # None
                    THEN DictSet(amd_map, amd_id,
                                 DictMerge(parse_dnx_section(tech_md[1], "generalFileCharacteristics"),
                                           parse_dnx_section(tech_md[1], "fileFixity")))
                    ELSE amd_map)

\* parse_metadata_sections with dmd_sec.get('ID', 'ie-dmd'): a section without
\* ID is indexed as the entity's
parse_metadata_sections_DefaultId(root) ==
    <<DmdMap([i \in DOMAIN root.dmdSecs |->
                IF "ID" \in DOMAIN root.dmdSecs[i].attrs THEN root.dmdSecs[i]
                ELSE [root.dmdSecs[i] EXCEPT !.attrs = [ID |-> S_ie_dmd]]],
             EmptyDict),
      AmdMap(root.amdSecs, EmptyDict)>>

\* parse_metadata_sections(root): <<dmd_map, amd_map>>
parse_metadata_sections(root) ==
    <<DmdMap(root.dmdSecs, EmptyDict), AmdMap(root.amdSecs, EmptyDict)>>

\* lines 377-381: the techMD of the first amdSec with the group's ADMID that
\* has one
RECURSIVE FirstTechMD(_)
FirstTechMD(amd_secs) ==
    IF amd_secs = <<>> THEN None
    ELSE IF FindTechMD(Head(amd_secs)) # None THEN FindTechMD(Head(amd_secs))
         ELSE FirstTechMD(Tail(amd_secs))

\* lines 383-389: rep_data; its values are Optional[str]
RepData(tech_md) ==
    IF tech_md = None THEN EmptyDict
    ELSE LET rep_chars == parse_dnx_section(tech_md[1], "generalRepCharacteristics")
         IN  [k \in {"label", "usageType"} |-> GetOpt(rep_chars, k)]

\* lines 392-398: rep_data.get('usageType', '').lower(), then the enum
\* lookup with its fallback; .lower() of None is an AttributeError
UsageType(rep_data) ==
    LET raw == Get(rep_data, "usageType", Some(<<>>))
    IN  IF raw = None
        THEN Raise("AttributeError", "'NoneType' object has no attribute 'lower'")
        ELSE LET looked == EnumLookup(RepresentationType, Lower(raw[1]))
             IN  IF looked.ok THEN looked ELSE Ok(ACCESS)

\* the loop of lines 420-426 with files.insert(0, file_model) in place of
\* files.append(file_model)
RECURSIVE ParseFiles_Reversed(_, _, _, _)
ParseFiles_Reversed(files, amd_map, root, n) ==
    IF files = <<>> THEN <<>>
    ELSE LET r == parse_file_element(Head(files), amd_map, root, UuidStr(n))
             rest == ParseFiles_Reversed(Tail(files), amd_map, root, n + 1)
         IN  IF r.ok THEN rest \o <<r.val>> ELSE rest

\* the loop of lines 420-426 with break in place of continue: the files
\* after a failed one are left out
RECURSIVE ParseFiles_StopAtFailure(_, _, _, _)
ParseFiles_StopAtFailure(files, amd_map, root, n) ==
    IF files = <<>> THEN <<>>
    ELSE LET r == parse_file_element(Head(files), amd_map, root, UuidStr(n))
             rest == ParseFiles_StopAtFailure(Tail(files), amd_map, root, n + 1)
         IN  IF r.ok THEN <<r.val>> \o rest ELSE <<>>

\* lines 420-426: the files of one group, in order; a file whose assembly
\* raises METSParsingError is skipped.  Every call draws one uuid.
RECURSIVE ParseFiles(_, _, _, _)
ParseFiles(files, amd_map, root, n) ==
    IF files = <<>> THEN <<>>
    ELSE LET r == parse_file_element(Head(files), amd_map, root, UuidStr(n))
             rest == ParseFiles(Tail(files), amd_map, root, n + 1)
         IN  IF r.ok THEN <<r.val>> \o rest ELSE rest

\* the loop body without the test of line 429: a representation is kept
\* whatever its file list
ProcessFileGrp_KeepEmpty(root, amd_map, file_grp, n, now) ==
    LET rep_id == Get(file_grp.attrs, "ID", S_rep_unknown)
        admid  == Get(file_grp.attrs, "ADMID", <<>>)
    IN  IF ~XPathLiteralOk(admid) THEN Raise("SyntaxError", "invalid predicate")
        ELSE LET rep_data   == RepData(FirstTechMD(WithID(root.amdSecs, admid)))
                 usage_type == UsageType(rep_data)
                 label      == OrElse(Get(rep_data, "label", None), S_Representation \o rep_id)
                 rep_model  == RepresentationModel(rep_id, Some(label), usage_type.val, Some(now))
                 files      == ParseFiles(file_grp.files, amd_map, root, n)
             IN  IF ~usage_type.ok THEN usage_type
                 ELSE Ok(Some([rep_model EXCEPT !.files = files]))

\* the body of the loop of process_file_sections for one fileGrp (lines
\* 373-432): the representation, None when it is dropped, or the exception
\* that leaves the loop
ProcessFileGrp(root, amd_map, file_grp, n, now) ==
    LET rep_id == Get(file_grp.attrs, "ID", S_rep_unknown)
        admid  == Get(file_grp.attrs, "ADMID", <<>>)
    IN  IF ~XPathLiteralOk(admid) THEN Raise("SyntaxError", "invalid predicate")
        ELSE LET rep_data   == RepData(FirstTechMD(WithID(root.amdSecs, admid)))
                 usage_type == UsageType(rep_data)
                 label      == OrElse(Get(rep_data, "label", None), S_Representation \o rep_id)
                 rep_model  == RepresentationModel(rep_id, Some(label), usage_type.val, Some(now))
                 files      == ParseFiles(file_grp.files, amd_map, root, n)
             IN  IF ~usage_type.ok THEN usage_type
                 ELSE IF files # <<>>
                      THEN Ok(Some([rep_model EXCEPT !.files = files]))
                      ELSE Ok(None)

\* build_ie_model without the defaults of title and identifier
build_ie_model_NoDefaults(sip_id, dmd_map, amd_map, representations) ==
    IF S_ie_dmd \notin DOMAIN dmd_map
    THEN Raise("METSParsingError", "Missing required ie-dmd section")
    ELSE LET ie_dmd_data == dmd_map[S_ie_dmd]
             ie_id_str   == Replace(sip_id, S_SIP, S_IE)
             ie_amd_data == Get(amd_map, S_ie_amd, EmptyDict)
             ie_entity_type == Get(ie_amd_data, "IEEntityType", S_unknown)
             dc_model == DublinCore(ie_dmd_data.title, ie_dmd_data.creator, <<>>,
                                    ie_dmd_data.identifier, ie_dmd_data.rights)
         IN  IF ie_dmd_data.title = <<>> /\ ie_dmd_data.identifier = <<>> /\ ie_dmd_data.type = <<>>
             THEN Raise("METSParsingError", "Missing required Dublin Core metadata")
             ELSE Ok(IEModel(ie_id_str, dc_model, ie_entity_type, representations))

\* build_ie_model(sip_id, dmd_map, amd_map, representations)
build_ie_model(sip_id, dmd_map, amd_map, representations) ==
    IF S_ie_dmd \notin DOMAIN dmd_map
    THEN Raise("METSParsingError", "Missing required ie-dmd section")
    ELSE LET ie_dmd_data == dmd_map[S_ie_dmd]
             ie_id_str   == Replace(sip_id, S_SIP, S_IE)
             ie_amd_data == Get(amd_map, S_ie_amd, EmptyDict)
             ie_entity_type == Get(ie_amd_data, "IEEntityType", S_unknown)
             dc_model == DublinCore(
                 IF ie_dmd_data.title # <<>> THEN ie_dmd_data.title ELSE <<S_Untitled>>,
                 ie_dmd_data.creator,
                 <<>>,
                 IF ie_dmd_data.identifier # <<>> THEN ie_dmd_data.identifier ELSE <<ie_id_str>>,
                 ie_dmd_data.rights)
         IN  IF ie_dmd_data.title = <<>> /\ ie_dmd_data.identifier = <<>> /\ ie_dmd_data.type = <<>>
             THEN Raise("METSParsingError", "Missing required Dublin Core metadata")
             ELSE Ok(IEModel(ie_id_str, dc_model, ie_entity_type, representations))

----------------------------------------------------------------------------
(* The source documents: the METS elements the parser reads *)

NoAttrs == EmptyDict

\* <dnx:key id=...>text</dnx:key>
Key(id, text) == [attrs |-> [id |-> id], text |-> text]

\* <dnx:section id=...> with its records, each a sequence of keys
Section(id, records) == [attrs |-> [id |-> id], records |-> records]

\* <mets:techMD><mets:mdWrap OTHERMDTYPE="dnx"><mets:xmlData><dnx:dnx>
TechMD(sections) ==
    [mdWrap |-> Some([attrs |-> [OTHERMDTYPE |-> "dnx"],
                      xmlData |-> Some([dnx |-> Some(sections)])])]

\* <mets:amdSec> with one techMD, a child of the section or nested deeper
AmdSec(attrs, direct, sections) ==
    [attrs |-> attrs, techMDs |-> <<[direct |-> direct, md |-> TechMD(sections)]>>]

\* <mets:amdSec> without techMD
AmdSecEmpty(attrs) == [attrs |-> attrs, techMDs |-> <<>>]

\* an element of a dc:record
DcEl(tag, text) == [tag |-> tag, text |-> text]

\* <mets:dmdSec><mets:mdWrap><mets:xmlData> with an Optional dc:record
DmdSec(attrs, record) ==
    [attrs |-> attrs, mdWrap |-> Some([xmlData |-> Some([record |-> record])])]

\* <mets:dmdSec> without mdWrap
DmdSecEmpty(attrs) == [attrs |-> attrs, mdWrap |-> None]

FileEl(attrs) == [attrs |-> attrs]

FileGrp(attrs, files) == [attrs |-> attrs, files |-> files]

\* <mets:metsHdr> with an Optional CREATOR agent holding an Optional name
MetsHdr(name) == Some([creator |-> Some([name |-> name])])

\* the root element; fileSec is the Optional first mets:fileSec, the
\* sequence of its fileGrp children
Root(attrs, hdr, dmd_secs, amd_secs, file_sec) ==
    [attrs |-> attrs, metsHdr |-> hdr, dmdSecs |-> dmd_secs,
     amdSecs |-> amd_secs, fileSec |-> file_sec]

\* what Et.parse(xml_path) does with a source: "ok" (a tree), or the
\* exception it raises
Source(read, stem, root) == [read |-> read, stem |-> stem, root |-> root]

----------------------------------------------------------------------------
(* The bounded set of sources the parser is run on *)

\* fixity entries per fileFixity section
MaxFixity == 2

\* file elements per fileGrp
MaxFiles == 2

\* fileGrp elements per fileSec
MaxGrps == 2

\* dmdSec elements per document
MaxDmd == 2

\* elements per dc:record
MaxDc == 2

SeqsUpTo(S, n) == UNION {[1..k -> S] : k \in 0..n}

T_Report == <<"R","e","p","o","r","t">>

T_blank == <<" "," ">>

T_id == <<"d","o","i","-","1">>

T_Text == <<"T","e","x","t">>

T_ETH == <<" ","E","T","H"," ">>

T_SIP001 == <<"S","I","P","-","0","0","1">>

T_stem == <<"i","e">>

T_sha256 == <<"S","H","A","-","2","5","6">>

T_md5 == <<"m","d","5">>

T_MD5 == <<"M","D","5">>

T_CRC32 == <<"C","R","C","3","2">>

T_deadbeef == <<"d","e","a","d","b","e","e","f">>

T_aa == <<"a","a">>

T_cc == <<"c","c">>

T_ee == <<"e","e">>

T_pdf == <<"d","o","c",".","p","d","f">>

ID_amd1 == <<"a","m","d","1">>

ID_amd2 == <<"a","m","d","2">>

ID_quote == <<"a","\"","b">>

ID_two == ID_amd1 \o <<" ">> \o ID_amd2

ID_other == <<"d","m","d","1">>

ID_f1 == <<"f","1">>

ID_f2 == <<"f","2">>

ID_g1 == <<"g","1">>

ID_g2 == <<"g","2">>

ID_rep1 == <<"r","e","p","1">>

ID_rep2 == <<"r","e","p","2">>

ID_rep3 == <<"r","e","p","3">>

\* declared file sizes
SizeTexts == { <<"a","b","c">>, <<"4","2">>, <<"-","5">>, <<" ","7"," ">>, <<>> }

\* declared usage types
UsageTexts == { <<"P","R","E","S","E","R","V","A","T","I","O","N">>,
                <<"A","c","c","e","s","s">>, ORIGINAL,
                <<"b","o","g","u","s">>, <<>> }

\* the records of a fileFixity section: recognised and unrecognised
\* algorithms, an entry without digest, an entry without algorithm
FixityRecords ==
    { <<Key("fixityType", T_sha256), Key("fixityValue", T_deadbeef)>>,
      <<Key("fixityType", T_md5), Key("fixityValue", T_aa)>>,
      <<Key("fixityType", T_CRC32), Key("fixityValue", T_cc)>>,
      <<Key("fixityType", T_MD5)>>,
      <<Key("fixityValue", T_ee)>> }

GoodDmd == DmdSec([ID |-> S_ie_dmd], Some(<<DcEl("title", T_Report)>>))

GoodAttrs == [OBJID |-> T_SIP001]

SizeSection(size_keys) == Section("generalFileCharacteristics", <<size_keys>>)

OneFileSec(file_attrs) == Some(<<FileGrp([ID |-> ID_rep1], <<FileEl(file_attrs)>>)>>)

\* one file whose ADMID names a section with a fileFixity section of up to
\* MaxFixity entries, or with no fileFixity section, the techMD a child of
\* the section or nested deeper
FixityRoots ==
    { Root(GoodAttrs, None, <<GoodDmd>>,
           <<AmdSec([ID |-> ID_amd1], direct,
                    <<SizeSection(<<Key("fileSize", <<"4","2">>)>>)>> \o fx)>>,
           OneFileSec([ID |-> ID_f1, ADMID |-> ID_amd1])) :
        direct \in BOOLEAN,
        fx \in {<<>>} \cup {<<Section("fileFixity", recs)>> :
                               recs \in SeqsUpTo(FixityRecords, MaxFixity)} }

\* the attributes of the file elements: with and without ID, with no ADMID,
\* with an ADMID naming a section, holding a double quote, or listing two
FileAttrs ==
    { [ID |-> ID_f1, ADMID |-> ID_amd1],
      [ADMID |-> ID_amd1],
      [ID |-> ID_f2],
      [ID |-> ID_f2, ADMID |-> ID_quote],
      [ID |-> ID_f1, ADMID |-> ID_two, DMDID |-> ID_other] }

SizeKeys == {<<>>} \cup {<<Key("fileSize", t)>> : t \in SizeTexts}

\* one group of up to MaxFiles files over sections declaring a file size
SizeRoots ==
    { Root(GoodAttrs, None, <<GoodDmd>>,
           << AmdSec([ID |-> ID_amd1], TRUE,
                     << SizeSection(size_keys \o <<Key("fileOriginalName", T_pdf)>>),
                        Section("fileFixity", <<<<Key("fixityType", T_sha256),
                                                  Key("fixityValue", T_deadbeef)>>>>) >>),
              AmdSec([ID |-> ID_quote], TRUE,
                     << SizeSection(size_keys),
                        Section("fileFixity", <<<<Key("fixityType", T_CRC32),
                                                  Key("fixityValue", T_cc)>>>>) >>),
              AmdSec([ID |-> ID_amd2], TRUE, <<SizeSection(size_keys)>>) >>,
           Some(<<FileGrp([ID |-> ID_rep1], [i \in DOMAIN files |-> FileEl(files[i])])>>)) :
        size_keys \in SizeKeys,
        files \in SeqsUpTo(FileAttrs, MaxFiles) }

FileOk == FileEl([ID |-> ID_f1])

FileOk2 == FileEl([ID |-> ID_f2, ADMID |-> ID_amd1])

FileBad == FileEl([ADMID |-> ID_quote])

\* file groups: with and without ID and ADMID; an ADMID naming a section
\* with a usage type (rep1), with a techMD declaring none (rep2), without
\* techMD (rep3), or holding a double quote; no file, files that are all
\* skipped, files of which some are skipped
GrpVariants ==
    { FileGrp([ID |-> ID_g1, ADMID |-> ID_rep1], <<FileOk>>),
      FileGrp([ADMID |-> ID_rep1], <<FileOk, FileOk2>>),
      FileGrp([ID |-> ID_g2], <<FileOk2>>),
      FileGrp([ID |-> ID_g2, ADMID |-> ID_rep2], <<FileOk>>),
      FileGrp([ID |-> ID_g2, ADMID |-> ID_quote], <<FileOk>>),
      FileGrp([ID |-> ID_g1, ADMID |-> ID_rep1], <<>>),
      FileGrp([ID |-> ID_g2], <<FileBad>>),
      FileGrp([ID |-> ID_g1, ADMID |-> ID_rep3], <<FileBad, FileOk>>) }

\* up to MaxGrps groups, with and without an ie-dmd section
GroupRoots ==
    { Root(GoodAttrs, None, dmd,
           << AmdSec([ID |-> ID_rep1], TRUE,
                     <<Section("generalRepCharacteristics",
                               <<<<Key("usageType", usage)>>>>)>>),
              AmdSec([ID |-> ID_rep2], TRUE,
                     <<Section("generalRepCharacteristics",
                               <<<<Key("label", T_Report)>>>>)>>),
              AmdSecEmpty([ID |-> ID_rep3]),
              AmdSec([ID |-> ID_amd1], TRUE,
                     <<SizeSection(<<Key("fileSize", <<"4","2">>)>>)>>) >>,
           Some(grps)) :
        dmd \in {<<GoodDmd>>, <<>>},
        usage \in UsageTexts,
        grps \in SeqsUpTo(GrpVariants, MaxGrps) }

DcEls == { DcEl("title", T_Report), DcEl("title", T_blank),
           DcEl("identifier", T_id), DcEl("type", T_Text), DcEl("creator", T_ETH) }

\* one ie-dmd section with a dc:record of up to MaxDc elements, with no
\* dc:record, or with no mdWrap
DcRoots ==
    { Root(GoodAttrs, None, <<dmd>>, <<>>, OneFileSec([ID |-> ID_f1])) :
        dmd \in {DmdSecEmpty([ID |-> S_ie_dmd]), DmdSec([ID |-> S_ie_dmd], None)}
                \cup {DmdSec([ID |-> S_ie_dmd], Some(els)) : els \in SeqsUpTo(DcEls, MaxDc)} }

DmdVariants ==
    { DmdSec(attrs, Some(els)) :
        attrs \in {NoAttrs, [ID |-> S_ie_dmd], [ID |-> ID_other]},
        els \in {<<DcEl("title", T_Report)>>, <<>>, <<DcEl("identifier", T_id)>>} }

\* up to MaxDmd descriptive sections: with and without ID, named ie-dmd or not
DmdRoots ==
    { Root(GoodAttrs, None, dmds, <<>>, OneFileSec([ID |-> ID_f1])) :
        dmds \in SeqsUpTo(DmdVariants, MaxDmd) }

\* declared package identifiers: the token "SIP-" again after the prefix,
\* not at the start, or nowhere
ObjIds == { S_SIP \o S_SIP \o <<"1">>, <<"X","-">> \o S_SIP \o <<"1">>, <<"p","k","g","7">> }

\* the root attributes, the header and the file section present or absent
HeaderRoots ==
    { Root(attrs, hdr, <<GoodDmd>>, <<>>, file_sec) :
        attrs \in {NoAttrs, GoodAttrs} \cup {[OBJID |-> t] : t \in ObjIds},
        hdr \in { None, Some([creator |-> None]), MetsHdr(None),
                  MetsHdr(Some([text |-> T_ETH])), MetsHdr(Some([text |-> T_blank])) },
        file_sec \in {None, Some(<<>>), OneFileSec([ID |-> ID_f1])} }

Roots == FixityRoots \cup SizeRoots \cup GroupRoots \cup DcRoots \cup DmdRoots \cup HeaderRoots

NoRoot == Root(NoAttrs, None, <<>>, <<>>, None)

\* what Et.parse raises: ParseError (malformed XML), OSError (unreadable
\* file), LookupError (an XML declaration naming an encoding Python does not
\* know), ValueError (a path holding a NUL character)
ReadErrors == {"ParseError", "OSError", "LookupError", "ValueError"}

Sources ==
    {Source("ok", T_stem, root) : root \in Roots}
    \cup {Source(e, T_stem, NoRoot) : e \in ReadErrors}

----------------------------------------------------------------------------
(* One call of parse_mets_to_sip(xml_path) *)

VARIABLES
    source,               \* the file at xml_path
    pc,                   \* the statement the call is at
    root,                 \* tree.getroot(), None before Et.parse returns
    sip_id_str,
    sip_model,            \* Optional SIPModel
    dmd_map,
    amd_map,
    representation_list,
    grp,                  \* index of the next fileGrp of the loop
    uuid_count,           \* number of uuid4() calls so far
    clock,                \* what datetime.now(timezone.utc) returns next
    result,               \* how the call ended
    file_paths,           \* sip_asset: the op_config "file_paths"
    apc,                  \* sip_asset: the statement the asset run is at
    path_i,               \* sip_asset: index of the path being parsed
    primary_sip,          \* sip_asset: Optional SIPModel
    all_ie_ids,           \* sip_asset
    outputs,              \* the Output (or exception) of each asset run so far
    other,                \* the locals of a second call, in another thread
    fs,                   \* the files the dap commands and the sensor read and write
    cpc,                  \* the command or function of the CLI that ran last
    mono,                 \* what time.monotonic() returns
    calls,                \* the calls made to subprocesses and collaborators
    ret,                  \* what the command or function returned, None before
    loc                   \* the locals of the running command

\* the locals of the running call of parse_mets_to_sip
frame == <<source, pc, root, sip_id_str, sip_model, dmd_map, amd_map,
           representation_list, grp, result>>

\* what a call of parse_mets_to_sip cannot name: the locals of its caller
\* and of any other call
\* the state of the command line tools and of the sensor
cliVars == <<fs, cpc, mono, calls, ret, loc>>

callerVars == <<file_paths, apc, path_i, primary_sip, all_ie_ids, outputs, other, cliVars>>

vars == <<source, pc, root, sip_id_str, sip_model, dmd_map, amd_map,
          representation_list, grp, uuid_count, clock, result,
          file_paths, apc, path_i, primary_sip, all_ie_ids, outputs, other,
          fs, cpc, mono, calls, ret, loc>>

NoResult == [kind |-> "none"]

Returned(sip) == [kind |-> "return", sip |-> sip]

\* raise METSParsingError(f"{m}: {e}") out of parse_mets_to_sip
Raised(exc, m, cause) == [kind |-> "raise", exc |-> exc, msg |-> m, cause |-> cause]

\* no frame: the value of `other` while no second call runs
NoFrame == [pc |-> "none"]

\* parse_mets_to_sip called on its own: no asset run, no second call
NoCaller ==
    /\ file_paths = <<>>
    /\ apc = "none"
    /\ path_i = 0
    /\ primary_sip = None
    /\ all_ie_ids = <<>>
    /\ outputs = EmptyDict
    /\ other = NoFrame

\* no command of the CLI runs and the sensor is not evaluated
NoCli ==
    /\ fs = EmptyDict
    /\ cpc = "none"
    /\ mono = 0
    /\ calls = <<>>
    /\ ret = None
    /\ loc = EmptyDict

Init ==
    /\ source \in Sources
    /\ pc = "parse"
    /\ root = None
    /\ sip_id_str = <<>>
    /\ sip_model = None
    /\ dmd_map = EmptyDict
    /\ amd_map = EmptyDict
    /\ representation_list = <<>>
    /\ grp = 1
    /\ uuid_count = 0
    /\ clock = 0
    /\ result = NoResult
    /\ NoCaller
    /\ NoCli

\* lines 508-513: Et.parse; ParseError and IOError are re-raised as
\* METSParsingError, any other exception leaves the function as it is
EtParse ==
    /\ pc = "parse"
    /\ IF source.read = "ok"
       THEN /\ root' = Some(source.root)
            /\ pc' = "extract"
            /\ result' = result
       ELSE /\ root' = root
            /\ pc' = "done"
            /\ result' = IF source.read \in {"ParseError", "OSError"}
                         THEN Raised("METSParsingError", "Failed to parse XML file",
                                     Raise(source.read, ""))
                         ELSE Raised(source.read, "", Raise(source.read, ""))
    /\ UNCHANGED <<source, sip_id_str, sip_model, dmd_map, amd_map,
                   representation_list, grp, uuid_count, clock>>
    /\ UNCHANGED callerVars

\* lines 517-525: extract_sip_metadata and the SIPModel with no entity yet
ExtractSipMetadata ==
    /\ pc = "extract"
    /\ LET md == extract_sip_metadata(root[1], source.stem)
       IN  /\ sip_id_str' = md[1]
           /\ sip_model' = Some(SIPModel(md[1], md[2], Some(clock), <<>>))
    /\ clock' = clock + 1
    /\ pc' = "index"
    /\ UNCHANGED <<source, root, dmd_map, amd_map, representation_list, grp,
                   uuid_count, result>>
    /\ UNCHANGED callerVars

\* line 527
ParseMetadataSections ==
    /\ pc = "index"
    /\ LET maps == parse_metadata_sections(root[1])
       IN  /\ dmd_map' = maps[1]
           /\ amd_map' = maps[2]
    /\ pc' = "files"
    /\ UNCHANGED <<source, root, sip_id_str, sip_model, representation_list, grp,
                   uuid_count, clock, result>>
    /\ UNCHANGED callerVars

\* the fileGrp elements process_file_sections loops over (lines 368-372)
FileGrps == IF root[1].fileSec = None THEN <<>> ELSE root[1].fileSec[1]

\* line 530, one pass of the loop of process_file_sections; an exception
\* leaves parse_mets_to_sip through the handler of lines 539-541
ProcessFileGrpStep ==
    /\ pc = "files"
    /\ grp <= Len(FileGrps)
    /\ LET r == ProcessFileGrp(root[1], amd_map, FileGrps[grp], uuid_count, clock)
       IN  IF r.ok
           THEN /\ representation_list' =
                       IF r.val # None THEN Append(representation_list, r.val[1])
                       ELSE representation_list
                /\ grp' = grp + 1
                /\ uuid_count' = uuid_count + Len(FileGrps[grp].files)
                /\ clock' = clock + 1
                /\ pc' = pc
                /\ result' = result
           ELSE /\ result' = Raised("METSParsingError", "Failed to parse METS structure", r)
                /\ pc' = "done"
                /\ UNCHANGED <<representation_list, grp, uuid_count, clock>>
    /\ UNCHANGED <<source, root, sip_id_str, sip_model, dmd_map, amd_map>>
    /\ UNCHANGED callerVars

\* line 434: process_file_sections returns
ProcessFileSectionsReturn ==
    /\ pc = "files"
    /\ grp > Len(FileGrps)
    /\ pc' = "build"
    /\ UNCHANGED <<source, root, sip_id_str, sip_model, dmd_map, amd_map,
                   representation_list, grp, uuid_count, clock, result>>
    /\ UNCHANGED callerVars

\* lines 533-541: build_ie_model, the append and the return, or the handler
BuildIeModel ==
    /\ pc = "build"
    /\ LET ie_model == build_ie_model(sip_id_str, dmd_map, amd_map, representation_list)
       IN  IF ie_model.ok
           THEN /\ sip_model' = Some([sip_model[1] EXCEPT !.intellectual_entities =
                                         Append(@, ie_model.val)])
                /\ result' = Returned(sip_model'[1])
           ELSE /\ sip_model' = sip_model
                /\ result' = Raised("METSParsingError", "Failed to parse METS structure", ie_model)
    /\ pc' = "done"
    /\ UNCHANGED <<source, root, sip_id_str, dmd_map, amd_map, representation_list,
                   grp, uuid_count, clock>>
    /\ UNCHANGED callerVars

Next ==
    \/ EtParse
    \/ ExtractSipMetadata
    \/ ParseMetadataSections
    \/ ProcessFileGrpStep
    \/ ProcessFileSectionsReturn
    \/ BuildIeModel

Spec == Init /\ [][Next]_vars

----------------------------------------------------------------------------
(* assets.py: one run of sip_asset and of the assets derived from it.  The
   calls of parse_mets_to_sip it makes run in the frame above, one after the
   other; uuid_count and clock are the process's, not the call's. *)

\* paths per file_paths list
MaxPaths == 2

\* a document whose single file declares its ID and a SHA-256 fixity
DocFixity ==
    Root(GoodAttrs, None, <<GoodDmd>>,
         <<AmdSec([ID |-> ID_amd1], TRUE,
                  << SizeSection(<<Key("fileSize", <<"4","2">>)>>),
                     Section("fileFixity", <<<<Key("fixityType", T_sha256),
                                               Key("fixityValue", T_deadbeef)>>>>) >>)>>,
         OneFileSec([ID |-> ID_f1, ADMID |-> ID_amd1]))

\* the same file ID and the same digest in another package, the file of
\* another size
DocSameFileId ==
    Root([OBJID |-> S_SIP \o <<"0","0","2">>], None, <<GoodDmd>>,
         <<AmdSec([ID |-> ID_amd1], TRUE,
                  << SizeSection(<<Key("fileSize", <<"7">>)>>),
                     Section("fileFixity", <<<<Key("fixityType", T_sha256),
                                               Key("fixityValue", T_deadbeef)>>>>) >>)>>,
         OneFileSec([ID |-> ID_f1, ADMID |-> ID_amd1]))

\* a file without ID, with an MD5 fixity
DocNoFileId ==
    Root(GoodAttrs, None, <<GoodDmd>>,
         <<AmdSec([ID |-> ID_amd1], TRUE,
                  <<Section("fileFixity", <<<<Key("fixityType", T_md5),
                                              Key("fixityValue", T_aa)>>>>)>>)>>,
         OneFileSec([ADMID |-> ID_amd1]))

\* two file groups without ID, the second with two files
DocTwoGrps ==
    Root(NoAttrs, MetsHdr(Some([text |-> T_ETH])),
         <<DmdSec([ID |-> S_ie_dmd], Some(<<DcEl("title", T_Report), DcEl("creator", T_ETH)>>))>>,
         <<>>,
         Some(<<FileGrp(NoAttrs, <<FileOk>>), FileGrp(NoAttrs, <<FileOk, FileEl([ID |-> ID_f2])>>)>>))

\* no file section: an entity without representation
DocNoFiles == Root(GoodAttrs, None, <<GoodDmd>>, <<>>, None)

\* no ie-dmd section: the parse fails
DocNoDmd == Root(GoodAttrs, None, <<>>, <<>>, OneFileSec([ID |-> ID_f1]))

AssetSources ==
    {Source("ok", T_stem, r) :
        r \in {DocFixity, DocSameFileId, DocNoFileId, DocTwoGrps, DocNoFiles, DocNoDmd}}
    \cup {Source("ParseError", T_stem, NoRoot)}

\* the file_paths lists: none, one path to any source, or up to MaxPaths
\* paths
FilePathLists ==
    {<<>>} \cup {<<src>> : src \in Sources \cup AssetSources}
    \cup UNION {[1..k -> AssetSources] : k \in 2..MaxPaths}

\* Output(value=..., metadata=...)
Output(value, metadata) == [value |-> value, metadata |-> metadata]

\* the concatenation of a sequence of lists: repeated list.extend
RECURSIVE Extend(_)
Extend(lists) ==
    IF lists = <<>> THEN <<>> ELSE Head(lists) \o Extend(Tail(lists))

\* [ie.ie_id for ie in ...]
IeIds(ies) == [i \in 1..Len(ies) |-> ies[i].ie_id]

\* a call of parse_mets_to_sip(src) begins: fresh locals
EnterCall(src) ==
    /\ source' = src
    /\ pc' = "parse"
    /\ root' = None
    /\ sip_id_str' = <<>>
    /\ sip_model' = None
    /\ dmd_map' = EmptyDict
    /\ amd_map' = EmptyDict
    /\ representation_list' = <<>>
    /\ grp' = 1
    /\ result' = NoResult

\* the exception of a failed call leaves sip_asset
AssetFails(exc, msg) ==
    /\ outputs' = DictSet(outputs, "sip_asset", Raise(exc, msg))
    /\ apc' = "failed"

InitAsset ==
    /\ file_paths \in FilePathLists
    /\ apc = "start"
    /\ path_i = 0
    /\ primary_sip = None
    /\ all_ie_ids = <<>>
    /\ outputs = EmptyDict
    /\ other = NoFrame
    /\ source = Source("ok", T_stem, NoRoot)
    /\ pc = "idle"
    /\ root = None
    /\ sip_id_str = <<>>
    /\ sip_model = None
    /\ dmd_map = EmptyDict
    /\ amd_map = EmptyDict
    /\ representation_list = <<>>
    /\ grp = 1
    /\ uuid_count = 0
    /\ clock = 0
    /\ result = NoResult
    /\ NoCli

\* lines 33-38: the empty list is refused, else the first path is parsed
SipAssetStart ==
    /\ apc = "start"
    /\ IF file_paths = <<>>
       THEN /\ AssetFails("ValueError", "At least one METS XML file path must be provided")
            /\ UNCHANGED <<frame, path_i>>
       ELSE /\ EnterCall(file_paths[1])
            /\ path_i' = 1
            /\ apc' = "primary"
            /\ outputs' = outputs
    /\ UNCHANGED <<file_paths, primary_sip, all_ie_ids, other, uuid_count, clock>>
    /\ UNCHANGED cliVars

\* lines 38-43: the first call has ended; its package is the primary one,
\* and the next path, if any, is parsed
SipAssetPrimary ==
    /\ apc = "primary"
    /\ pc = "done"
    /\ IF result.kind = "raise"
       THEN /\ AssetFails(result.exc, result.msg)
            /\ UNCHANGED <<frame, path_i, primary_sip, all_ie_ids>>
       ELSE /\ primary_sip' = Some(result.sip)
            /\ all_ie_ids' = IeIds(result.sip.intellectual_entities)
            /\ outputs' = outputs
            /\ IF Len(file_paths) > 1
               THEN /\ EnterCall(file_paths[2])
                    /\ path_i' = 2
                    /\ apc' = "additional"
               ELSE /\ apc' = "output"
                    /\ UNCHANGED <<frame, path_i>>
    /\ UNCHANGED <<file_paths, other, uuid_count, clock>>
    /\ UNCHANGED cliVars

\* lines 43-46 with the entities of a further package put in front of the
\* primary package's list
SipAssetAdditional_Prepend ==
    /\ apc = "additional"
    /\ pc = "done"
    /\ IF result.kind = "raise"
       THEN /\ AssetFails(result.exc, result.msg)
            /\ UNCHANGED <<frame, path_i, primary_sip, all_ie_ids>>
       ELSE /\ primary_sip' = Some([primary_sip[1] EXCEPT !.intellectual_entities =
                                       result.sip.intellectual_entities \o @])
            /\ all_ie_ids' = all_ie_ids \o IeIds(result.sip.intellectual_entities)
            /\ outputs' = outputs
            /\ IF path_i < Len(file_paths)
               THEN /\ EnterCall(file_paths[path_i + 1])
                    /\ path_i' = path_i + 1
                    /\ apc' = apc
               ELSE /\ apc' = "output"
                    /\ UNCHANGED <<frame, path_i>>
    /\ UNCHANGED <<file_paths, other, uuid_count, clock>>
    /\ UNCHANGED cliVars

\* lines 43-46 with the call in a try block that passes over a file that
\* fails to parse
SipAssetAdditional_SkipFailed ==
    /\ apc = "additional"
    /\ pc = "done"
    /\ IF result.kind = "raise"
       THEN UNCHANGED <<primary_sip, all_ie_ids>>
       ELSE /\ primary_sip' = Some([primary_sip[1] EXCEPT !.intellectual_entities =
                                       @ \o result.sip.intellectual_entities])
            /\ all_ie_ids' = all_ie_ids \o IeIds(result.sip.intellectual_entities)
    /\ outputs' = outputs
    /\ IF path_i < Len(file_paths)
       THEN /\ EnterCall(file_paths[path_i + 1])
            /\ path_i' = path_i + 1
            /\ apc' = apc
       ELSE /\ apc' = "output"
            /\ UNCHANGED <<frame, path_i>>
    /\ UNCHANGED <<file_paths, other, uuid_count, clock>>
    /\ UNCHANGED cliVars

\* lines 43-46: a further call has ended; its entities are appended to the
\* primary package's list, and the next path, if any, is parsed
SipAssetAdditional ==
    /\ apc = "additional"
    /\ pc = "done"
    /\ IF result.kind = "raise"
       THEN /\ AssetFails(result.exc, result.msg)
            /\ UNCHANGED <<frame, path_i, primary_sip, all_ie_ids>>
       ELSE /\ primary_sip' = Some([primary_sip[1] EXCEPT !.intellectual_entities =
                                       @ \o result.sip.intellectual_entities])
            /\ all_ie_ids' = all_ie_ids \o IeIds(result.sip.intellectual_entities)
            /\ outputs' = outputs
            /\ IF path_i < Len(file_paths)
               THEN /\ EnterCall(file_paths[path_i + 1])
                    /\ path_i' = path_i + 1
                    /\ apc' = apc
               ELSE /\ apc' = "output"
                    /\ UNCHANGED <<frame, path_i>>
    /\ UNCHANGED <<file_paths, other, uuid_count, clock>>
    /\ UNCHANGED cliVars

\* lines 48-56
SipAssetOutput ==
    /\ apc = "output"
    /\ outputs' = DictSet(outputs, "sip_asset",
           Ok(Output(primary_sip[1],
                     [k \in {"File Paths", "SIP ID", "Intellectual Entity Count", "IE IDs"} |->
                        CASE k = "File Paths" -> file_paths
                          [] k = "SIP ID" -> primary_sip[1].sip_id
                          [] k = "Intellectual Entity Count" ->
                                 Len(primary_sip[1].intellectual_entities)
                          [] OTHER -> all_ie_ids])))
    /\ apc' = "materialized"
    /\ UNCHANGED <<frame, file_paths, path_i, primary_sip, all_ie_ids, other,
                   uuid_count, clock>>
    /\ UNCHANGED cliVars

\* an asset runs once its upstream asset has produced an Output
Upstream(name) == name \in DOMAIN outputs /\ outputs[name].ok

\* utils.collect_dc_metadata(ie_list)
collect_dc_metadata(ie_list) ==
    LET titled == SelectSeq(ie_list, LAMBDA ie : ie.dc.title # <<>>)
    IN  [k \in {"IE Count", "IE DC Titles", "IE DC Identifiers", "IE DC Creators",
                "IE DC Rights", "IE DC Types"} |->
           CASE k = "IE Count" -> Len(ie_list)
             [] k = "IE DC Titles" -> [i \in 1..Len(titled) |-> titled[i].dc.title[1]]
             [] k = "IE DC Identifiers" ->
                    Extend([i \in 1..Len(ie_list) |-> ie_list[i].dc.identifier])
             [] k = "IE DC Creators" ->
                    Extend([i \in 1..Len(ie_list) |-> ie_list[i].dc.creator])
             [] k = "IE DC Rights" ->
                    Extend([i \in 1..Len(ie_list) |-> ie_list[i].dc.rights])
             [] OTHER -> Extend([i \in 1..Len(ie_list) |-> ie_list[i].dc.type])]

\* the asset intellectual_entities (lines 60-76)
IntellectualEntitiesAsset ==
    /\ Upstream("sip_asset")
    /\ "intellectual_entities" \notin DOMAIN outputs
    /\ LET ie_list == outputs["sip_asset"].val.value.intellectual_entities
       IN  outputs' = DictSet(outputs, "intellectual_entities",
                              Ok(Output(ie_list, collect_dc_metadata(ie_list))))
    /\ UNCHANGED <<frame, file_paths, apc, path_i, primary_sip, all_ie_ids, other,
                   uuid_count, clock>>
    /\ UNCHANGED cliVars

\* the asset representations (lines 78-109)
RepresentationsAsset ==
    /\ Upstream("intellectual_entities")
    /\ "representations" \notin DOMAIN outputs
    /\ LET ies  == outputs["intellectual_entities"].val.value
           reps == Extend([i \in 1..Len(ies) |-> ies[i].representations])
       IN  outputs' = DictSet(outputs, "representations",
               Ok(Output(reps,
                         [k \in {"Representation Count", "Representation IDs"} |->
                            IF k = "Representation Count" THEN Len(reps)
                            ELSE [i \in 1..Len(reps) |-> reps[i].rep_id]])))
    /\ UNCHANGED <<frame, file_paths, apc, path_i, primary_sip, all_ie_ids, other,
                   uuid_count, clock>>
    /\ UNCHANGED cliVars

\* the asset files (lines 111-141)
FilesAsset ==
    /\ Upstream("representations")
    /\ "files" \notin DOMAIN outputs
    /\ LET reps      == outputs["representations"].val.value
           all_files == Extend([i \in 1..Len(reps) |-> reps[i].files])
           named     == SelectSeq(all_files, LAMBDA f : f.original_name # <<>>)
       IN  outputs' = DictSet(outputs, "files",
               Ok(Output(all_files,
                         [k \in {"File Count", "File Original Names"} |->
                            IF k = "File Count" THEN Len(all_files)
                            ELSE [i \in 1..Len(named) |-> named[i].original_name]])))
    /\ UNCHANGED <<frame, file_paths, apc, path_i, primary_sip, all_ie_ids, other,
                   uuid_count, clock>>
    /\ UNCHANGED cliVars

\* files_by_id = {f.file_id: f for f in files}: the last file of an id
RECURSIVE FilesById(_, _)
FilesById(files, d) ==
    IF files = <<>> THEN d
    ELSE FilesById(Tail(files), DictSet(d, Head(files).file_id, Head(files)))

\* utils.collect_fixity_details(all_fixities, files_by_id)
RECURSIVE collect_fixity_details(_, _)
collect_fixity_details(all_fixities, files_by_id) ==
    IF all_fixities = <<>> THEN <<>>
    ELSE LET fx   == Head(all_fixities)
             rest == collect_fixity_details(Tail(all_fixities), files_by_id)
         IN  IF fx.file_id \in DOMAIN files_by_id
             THEN <<[type |-> fx.fixity_type, value |-> fx.fixity_value,
                     file_id |-> fx.file_id,
                     file_name |-> files_by_id[fx.file_id].original_name,
                     file_label |-> files_by_id[fx.file_id].label]>> \o rest
             ELSE rest

\* utils.group_fixities_by_file(fixity_details), from the dict built so far
RECURSIVE GroupFixities(_, _)
GroupFixities(fixity_details, fixities_by_file) ==
    IF fixity_details = <<>> THEN fixities_by_file
    ELSE LET detail  == Head(fixity_details)
             file_id == detail.file_id
             entry   == IF file_id \in DOMAIN fixities_by_file
                        THEN fixities_by_file[file_id]
                        ELSE [file_name |-> detail.file_name,
                              file_label |-> detail.file_label,
                              fixities |-> <<>>]
         IN  GroupFixities(Tail(fixity_details),
                 DictSet(fixities_by_file, file_id,
                         [entry EXCEPT !.fixities =
                             Append(@, [type |-> detail.type, value |-> detail.value])]))

group_fixities_by_file(fixity_details) == GroupFixities(fixity_details, EmptyDict)

\* the asset fixities (lines 144-172)
FixitiesAsset ==
    /\ Upstream("files")
    /\ "fixities" \notin DOMAIN outputs
    /\ LET files          == outputs["files"].val.value
           all_fixities   == Extend([i \in 1..Len(files) |-> files[i].fixities])
           files_by_id    == FilesById(files, EmptyDict)
           fixity_details == collect_fixity_details(all_fixities, files_by_id)
       IN  outputs' = DictSet(outputs, "fixities",
               Ok(Output(all_fixities,
                         [k \in {"Fixity Count", "Fixities by File", "All Fixities"} |->
                            CASE k = "Fixity Count" -> Len(all_fixities)
                              [] k = "Fixities by File" -> group_fixities_by_file(fixity_details)
                              [] OTHER -> fixity_details])))
    /\ UNCHANGED <<frame, file_paths, apc, path_i, primary_sip, all_ie_ids, other,
                   uuid_count, clock>>
    /\ UNCHANGED cliVars

NextAsset ==
    \/ SipAssetStart
    \/ EtParse
    \/ ExtractSipMetadata
    \/ ParseMetadataSections
    \/ ProcessFileGrpStep
    \/ ProcessFileSectionsReturn
    \/ BuildIeModel
    \/ SipAssetPrimary
    \/ SipAssetAdditional
    \/ SipAssetOutput
    \/ IntellectualEntitiesAsset
    \/ RepresentationsAsset
    \/ FilesAsset
    \/ FixitiesAsset

SpecAsset == InitAsset /\ [][NextAsset]_vars

----------------------------------------------------------------------------
(* Two calls of parse_mets_to_sip in two threads of one process.  Each call
   has its own locals; `other` holds those of the call that is not running.
   The interpreter switches threads between any two steps; a step touches
   the locals of its call and draws from uuid4() and the clock, which are
   the process's. *)

\* the sources parsed concurrently
ConcSources == AssetSources

\* the locals of a call, as a record
FrameRec(src, at, tree, sid, sip, dmd, amd, reps, g, res) ==
    [source |-> src, pc |-> at, root |-> tree, sip_id_str |-> sid,
     sip_model |-> sip, dmd_map |-> dmd, amd_map |-> amd,
     representation_list |-> reps, grp |-> g, result |-> res]

\* the locals of a call that has not begun
FreshFrame(src) ==
    FrameRec(src, "parse", None, <<>>, None, EmptyDict, EmptyDict, <<>>, 1, NoResult)

InitConc ==
    /\ source \in ConcSources
    /\ pc = "parse"
    /\ root = None
    /\ sip_id_str = <<>>
    /\ sip_model = None
    /\ dmd_map = EmptyDict
    /\ amd_map = EmptyDict
    /\ representation_list = <<>>
    /\ grp = 1
    /\ uuid_count = 0
    /\ clock = 0
    /\ result = NoResult
    /\ file_paths = <<>>
    /\ apc = "none"
    /\ path_i = 0
    /\ primary_sip = None
    /\ all_ie_ids = <<>>
    /\ outputs = EmptyDict
    /\ other \in {FreshFrame(src) : src \in ConcSources}
    /\ NoCli

\* the thread switch with dmd_map and amd_map module-level dicts that both
\* calls fill and read
Switch_SharedMaps ==
    /\ other # NoFrame
    /\ other' = FrameRec(source, pc, root, sip_id_str, sip_model, dmd_map, amd_map,
                         representation_list, grp, result)
    /\ source' = other.source
    /\ pc' = other.pc
    /\ root' = other.root
    /\ sip_id_str' = other.sip_id_str
    /\ sip_model' = other.sip_model
    /\ representation_list' = other.representation_list
    /\ grp' = other.grp
    /\ result' = other.result
    /\ UNCHANGED <<dmd_map, amd_map, uuid_count, clock, file_paths, apc, path_i,
                   primary_sip, all_ie_ids, outputs>>
    /\ UNCHANGED cliVars

\* the interpreter switches to the other thread: the running call's locals
\* are set aside and the other call's are resumed; no local of one call is
\* visible to the other
Switch ==
    /\ other # NoFrame
    /\ other' = FrameRec(source, pc, root, sip_id_str, sip_model, dmd_map, amd_map,
                         representation_list, grp, result)
    /\ source' = other.source
    /\ pc' = other.pc
    /\ root' = other.root
    /\ sip_id_str' = other.sip_id_str
    /\ sip_model' = other.sip_model
    /\ dmd_map' = other.dmd_map
    /\ amd_map' = other.amd_map
    /\ representation_list' = other.representation_list
    /\ grp' = other.grp
    /\ result' = other.result
    /\ UNCHANGED <<uuid_count, clock, file_paths, apc, path_i, primary_sip,
                   all_ie_ids, outputs>>
    /\ UNCHANGED cliVars

NextConc ==
    \/ EtParse
    \/ ExtractSipMetadata
    \/ ParseMetadataSections
    \/ ProcessFileGrpStep
    \/ ProcessFileSectionsReturn
    \/ BuildIeModel
    \/ Switch

SpecConc == InitConc /\ [][NextConc]_vars

----------------------------------------------------------------------------
(* A caller that holds a SIPModel and mutates it.  SIPModel is configured
   with validate_assignment=True (pydantic_models.py:471): pydantic validates
   a value when it is assigned to a field of the model.  A list the model
   holds is a plain Python list, and IEModel declares no model_config. *)

\* entities per package
MaxEntities == 3

\* an entity as build_ie_model returns it
EntityOf(ie_id) ==
    IEModel(ie_id, DublinCore(<<T_Report>>, <<>>, <<>>, <<ie_id>>, <<>>), S_unknown, <<>>)

ValidEntities == {EntityOf(S_IE \o <<"0","0","1">>), EntityOf(S_IE \o <<"0","0","2">>)}

\* Python objects that are no IEModel: a str, None
PyStr == [py |-> "str", value |-> <<"x">>]

PyNone == [py |-> "NoneType"]

\* what a caller can hand to list.append, list.extend or an assignment
PyObjects == ValidEntities \cup {PyStr, PyNone}

\* the object is an IEModel whose fields hold what the model declares
IsIEModel(x) ==
    /\ DOMAIN x = {"ie_id", "dc", "ie_entity_type", "representations"}
    /\ DOMAIN x.dc = DublinCoreFields

\* the object is an instance of IEModel, whatever its fields hold now
IsIEModelInstance(x) == DOMAIN x = {"ie_id", "dc", "ie_entity_type", "representations"}

\* the package parse_mets_to_sip builds at lines 520-525
InitMutate ==
    /\ primary_sip = Some(SIPModel(T_SIP001, S_Unknown, Some(0), <<>>))
    /\ result = NoResult
    /\ apc = "none"
    /\ file_paths = <<>>
    /\ path_i = 0
    /\ all_ie_ids = <<>>
    /\ outputs = EmptyDict
    /\ other = NoFrame
    /\ source = Source("ok", T_stem, NoRoot)
    /\ pc = "idle"
    /\ root = None
    /\ sip_id_str = <<>>
    /\ sip_model = None
    /\ dmd_map = EmptyDict
    /\ amd_map = EmptyDict
    /\ representation_list = <<>>
    /\ grp = 1
    /\ uuid_count = 0
    /\ clock = 0
    /\ NoCli

\* what a mutation leaves alone
MutateUnchanged ==
    UNCHANGED <<source, pc, root, sip_id_str, sip_model, dmd_map, amd_map,
                representation_list, grp, uuid_count, clock,
                file_paths, apc, path_i, all_ie_ids, outputs, other, cliVars>>

\* sip.intellectual_entities.append(x), as mets_parser.py:534 does: the list
\* grows in place, no field is assigned, nothing is validated
ListAppend ==
    /\ Len(primary_sip[1].intellectual_entities) < MaxEntities
    /\ \E x \in PyObjects :
          primary_sip' = Some([primary_sip[1] EXCEPT !.intellectual_entities = Append(@, x)])
    /\ result' = NoResult
    /\ MutateUnchanged

\* sip.intellectual_entities.extend(xs), as assets.py:45 does
ListExtend ==
    /\ \E xs \in [1..2 -> PyObjects] :
          /\ Len(primary_sip[1].intellectual_entities) + 2 <= MaxEntities
          /\ primary_sip' = Some([primary_sip[1] EXCEPT !.intellectual_entities = @ \o xs])
    /\ result' = NoResult
    /\ MutateUnchanged

\* sip.intellectual_entities = xs: validate_assignment validates the value
\* against List[IEModel] and raises ValidationError when an element is none
AssignEntities ==
    /\ \E xs \in SeqsUpTo(PyObjects, 2) :
          IF \A i \in 1..Len(xs) : IsIEModel(xs[i])
          THEN /\ primary_sip' = Some([primary_sip[1] EXCEPT !.intellectual_entities = xs])
               /\ result' = NoResult
          ELSE /\ primary_sip' = primary_sip
               /\ result' = Raised("ValidationError", "intellectual_entities",
                                   Raise("ValidationError", ""))
    /\ MutateUnchanged

\* sip.intellectual_entities[i].dc = None: IEModel does not validate
\* assignments (pydantic_models.py:397-403 declares no model_config)
NestedAssign ==
    /\ \E i \in 1..Len(primary_sip[1].intellectual_entities) :
          /\ IsIEModelInstance(primary_sip[1].intellectual_entities[i])
          /\ primary_sip' = Some([primary_sip[1] EXCEPT
                                    !.intellectual_entities[i].dc = None])
    /\ result' = NoResult
    /\ MutateUnchanged

NextMutate ==
    \/ ListAppend
    \/ ListExtend
    \/ AssignEntities
    \/ NestedAssign

SpecMutate == InitMutate /\ [][NextMutate]_vars

----------------------------------------------------------------------------
(* The dap command line: the development commands of commands/dev.py.  Each
   command runs its subprocesses one after the other through
   run_passthrough, which returns the exit code of the subprocess. *)

\* the variables of the parser and of the assets
pipelineVars == <<source, pc, root, sip_id_str, sip_model, dmd_map, amd_map,
                  representation_list, grp, uuid_count, clock, result,
                  file_paths, apc, path_i, primary_sip, all_ie_ids, outputs, other>>

\* no document is parsed and no asset runs
NoPipeline ==
    /\ source = Source("ok", T_stem, NoRoot)
    /\ pc = "idle"
    /\ root = None
    /\ sip_id_str = <<>>
    /\ sip_model = None
    /\ dmd_map = EmptyDict
    /\ amd_map = EmptyDict
    /\ representation_list = <<>>
    /\ grp = 1
    /\ uuid_count = 0
    /\ clock = 0
    /\ result = NoResult
    /\ NoCaller

\* the exit codes a subprocess returns: 0 .. MaxExit
MaxExit == 2

ExitCodes == 0..MaxExit

Scope == {"core", "cli", "all"}

CORE_TARGETS == <<"da_pipeline", "da_pipeline_tests">>

CLI_TARGETS == <<"cli/dap_cli">>

ALL_TARGETS == CORE_TARGETS \o CLI_TARGETS

CORE_TEST_TARGETS == <<"da_pipeline_tests">>

CLI_TEST_TARGETS == <<"cli/tests">>

ALL_TEST_TARGETS == CORE_TEST_TARGETS \o CLI_TEST_TARGETS

_targets(scope) ==
    IF scope = "cli" THEN CLI_TARGETS
    ELSE IF scope = "all" THEN ALL_TARGETS ELSE CORE_TARGETS

_test_targets(scope) ==
    IF scope = "cli" THEN CLI_TEST_TARGETS
    ELSE IF scope = "all" THEN ALL_TEST_TARGETS ELSE CORE_TEST_TARGETS

\* the commands of dev.py; "lint --fix" is lint with its option fix
DevCommands == {"test", "lint", "lint --fix", "typecheck", "check"}

\* the steps of check with mypy run before the format check
DevSteps_MypyFirst(command, scope) ==
    CASE command = "test" -> << <<"pytest">> \o _test_targets(scope) >>
      [] command = "lint" -> << <<"ruff", "check">> \o _targets(scope),
                                <<"ruff", "format", "--check">> \o _targets(scope) >>
      [] command = "lint --fix" -> << <<"ruff", "check", "--fix">> \o _targets(scope),
                                      <<"ruff", "format">> \o _targets(scope) >>
      [] command = "typecheck" -> << <<"mypy">> \o _targets(scope) >>
      [] command = "check" -> << <<"ruff", "check">> \o _targets(scope),
                                 <<"mypy">> \o _targets(scope),
                                 <<"ruff", "format", "--check">> \o _targets(scope),
                                 <<"pytest">> \o _test_targets(scope) >>

\* the argument lists a command hands to run_passthrough, in the order of
\* its code
DevSteps(command, scope) ==
    CASE command = "test" -> << <<"pytest">> \o _test_targets(scope) >>
      [] command = "lint" -> << <<"ruff", "check">> \o _targets(scope),
                                <<"ruff", "format", "--check">> \o _targets(scope) >>
      [] command = "lint --fix" -> << <<"ruff", "check", "--fix">> \o _targets(scope),
                                      <<"ruff", "format">> \o _targets(scope) >>
      [] command = "typecheck" -> << <<"mypy">> \o _targets(scope) >>
      [] command = "check" -> << <<"ruff", "check">> \o _targets(scope),
                                 <<"ruff", "format", "--check">> \o _targets(scope),
                                 <<"mypy">> \o _targets(scope),
                                 <<"pytest">> \o _test_targets(scope) >>

\* raise typer.Exit(code) in every command
ExitOnFailure_Code(command, code) == code

\* the argument of typer.Exit when a step returned code # 0: check exits
\* with 1 (_run_step returns a bool), the other commands with the code
ExitOnFailure(command, code) == IF command = "check" THEN 1 ELSE code

InitCheck ==
    /\ NoPipeline
    /\ fs = EmptyDict
    /\ mono = 0
    /\ cpc \in DevCommands
    /\ loc \in {[scope |-> sc, step |-> 1] : sc \in Scope}
    /\ calls = <<>>
    /\ ret = None

\* one call of run_passthrough by the running command and what the command
\* does with its return value: exit, go on to the next step, or return
RunStep ==
    /\ cpc \in DevCommands
    /\ ret = None
    /\ LET steps == DevSteps(cpc, loc.scope)
       IN  \E code \in ExitCodes :
              /\ calls' = Append(calls, [cmd |-> steps[loc.step], code |-> code])
              /\ IF code # 0
                 THEN /\ ret' = Some(ExitOnFailure(cpc, code))
                      /\ loc' = loc
                 ELSE IF loc.step = Len(steps)
                      THEN /\ ret' = Some(0)
                           /\ loc' = loc
                      ELSE /\ ret' = ret
                           /\ loc' = [loc EXCEPT !.step = @ + 1]
    /\ UNCHANGED <<pipelineVars, fs, mono, cpc>>

NextCheck ==
    \/ RunStep

SpecCheck == InitCheck /\ [][NextCheck]_vars


----------------------------------------------------------------------------
(* The dap command line: _wait_for_pods of commands/k8s.py.  mono is the
   monotonic clock, which the environment advances; cpc is the statement the
   function is at; loc holds its locals and, for the claims, what it did
   since its last poll. *)

READY_TIMEOUT == 180

READY_POLL_INTERVAL == 3

\* the clock advances by at most MaxLate ticks beyond what a statement needs
MaxLate == 1

S_dagster == <<"d","a","g","s","t","e","r","-">>

S_Running == <<"R","u","n","n","i","n","g">>

S_Pending == <<"P","e","n","d","i","n","g">>

S_unable == <<"u","n","a","b","l","e"," ","t","o"," ","q","u","e","r","y"," ","p","o","d","s">>

\* name.removeprefix("dagster-")
RemovePrefix(name, prefix) ==
    IF StartsWithAt(name, 1, prefix)
    THEN SubSeq(name, Len(prefix) + 1, Len(name))
    ELSE name

\* a line of the jsonpath output: name|phase|readiness, readiness the
\* "true" / "false" of each container and init container
PodLine(name, phase, readiness) == <<name, phase, readiness>>

\* what run_capture returns for kubectl get pods: the code and the lines of
\* the stripped output, each split on "|" (a line without two "|" has fewer
\* than three parts)
KubectlOutputs ==
    { [code |-> 1, lines |-> <<>>],
      [code |-> 0, lines |-> <<>>],
      [code |-> 0, lines |-> <<PodLine(S_dagster \o <<"w","e","b">>, S_Running, <<TRUE>>)>>],
      [code |-> 0, lines |-> <<PodLine(S_dagster \o <<"w","e","b">>, S_Running, <<TRUE>>),
                               PodLine(<<"d","b">>, S_Running, <<TRUE, FALSE>>)>>],
      [code |-> 0, lines |-> <<PodLine(S_dagster \o <<"r","u","n">>, S_Pending, <<>>)>>],
      [code |-> 0, lines |-> << <<S_dagster>> >>] }

\* the loop of lines 75-85 over the lines of the output
RECURSIVE PendingOf(_)
PendingOf(lines) ==
    IF lines = <<>> THEN <<>>
    ELSE LET parts == Head(lines)
             rest  == PendingOf(Tail(lines))
         IN  IF Len(parts) # 3 THEN rest
             ELSE IF parts[2] # S_Running \/ parts[3] = <<>>
                     \/ \E i \in DOMAIN parts[3] : ~parts[3][i]
                  THEN <<RemovePrefix(parts[1], S_dagster) \o <<" ", "(">> \o parts[2] \o <<")">>>>
                       \o rest
                  ELSE rest

\* _get_pending_pods(): the statuses "<short name> (<phase>)" of the pods
\* that are not ready
_get_pending_pods(out) ==
    IF out.code # 0 \/ out.lines = <<>>
    THEN <<S_unable>>
    ELSE PendingOf(out.lines)

InitWait ==
    /\ NoPipeline
    /\ fs = EmptyDict
    /\ calls = <<>>
    /\ ret = None
    /\ mono \in {0, 7}
    /\ cpc = "deadline"
    /\ loc = [start |-> mono, deadline |-> 0, since |-> mono, polled |-> FALSE,
              pending |-> <<>>, updates |-> 0, sleeps |-> 0, slept |-> {}]

\* the monotonic clock advances while the function runs: during a sleep
\* until it can end and a little beyond, during any other statement a
\* little
WaitTick ==
    /\ cpc \in {"deadline", "while", "poll", "sleep"}
    /\ IF cpc = "sleep"
       THEN mono < loc.since + READY_POLL_INTERVAL + MaxLate
       ELSE mono < loc.since + MaxLate
    /\ mono' = mono + 1
    /\ UNCHANGED <<pipelineVars, fs, cpc, calls, ret, loc>>

\* line 90
SetDeadline ==
    /\ cpc = "deadline"
    /\ loc' = [loc EXCEPT !.start = mono, !.deadline = mono + READY_TIMEOUT,
                          !.since = mono]
    /\ cpc' = "while"
    /\ UNCHANGED <<pipelineVars, fs, mono, calls, ret>>

\* the loop test with <= in place of <
LoopTest_Inclusive ==
    /\ cpc = "while"
    /\ IF mono <= loc.deadline
       THEN /\ cpc' = "poll"
            /\ ret' = ret
       ELSE /\ cpc' = "return"
            /\ ret' = Some(FALSE)
    /\ loc' = [loc EXCEPT !.since = mono]
    /\ UNCHANGED <<pipelineVars, fs, mono, calls>>

\* lines 91 and 99: the loop test, and the return when it fails
LoopTest ==
    /\ cpc = "while"
    /\ IF mono < loc.deadline
       THEN /\ cpc' = "poll"
            /\ ret' = ret
       ELSE /\ cpc' = "return"
            /\ ret' = Some(FALSE)
    /\ loc' = [loc EXCEPT !.since = mono]
    /\ UNCHANGED <<pipelineVars, fs, mono, calls>>

\* lines 92-98 with the sleep before the test of pending
Poll_SleepFirst ==
    /\ cpc = "poll"
    /\ \E out \in KubectlOutputs :
          LET pending == _get_pending_pods(out)
          IN  /\ loc' = [loc EXCEPT !.pending = pending, !.polled = TRUE,
                                    !.updates = 1, !.sleeps = 1,
                                    !.slept = {READY_POLL_INTERVAL}, !.since = mono]
              /\ cpc' = "sleep"
              /\ ret' = ret
    /\ UNCHANGED <<pipelineVars, fs, mono, calls>>

\* lines 92-98: the poll; with no pending pod the function returns True,
\* else it updates the status and calls time.sleep(READY_POLL_INTERVAL)
Poll ==
    /\ cpc = "poll"
    /\ \E out \in KubectlOutputs :
          LET pending == _get_pending_pods(out)
          IN  IF pending = <<>>
              THEN /\ loc' = [loc EXCEPT !.pending = pending, !.polled = TRUE,
                                        !.updates = 0, !.sleeps = 0, !.slept = {},
                                        !.since = mono]
                   /\ cpc' = "return"
                   /\ ret' = Some(TRUE)
              ELSE /\ loc' = [loc EXCEPT !.pending = pending, !.polled = TRUE,
                                        !.updates = 1, !.sleeps = 1,
                                        !.slept = {READY_POLL_INTERVAL}, !.since = mono]
                   /\ cpc' = "sleep"
                   /\ ret' = ret
    /\ UNCHANGED <<pipelineVars, fs, mono, calls>>

\* time.sleep returns once the interval has passed
SleepReturn ==
    /\ cpc = "sleep"
    /\ mono >= loc.since + READY_POLL_INTERVAL
    /\ cpc' = "while"
    /\ loc' = [loc EXCEPT !.since = mono]
    /\ UNCHANGED <<pipelineVars, fs, mono, calls, ret>>

NextWait ==
    \/ WaitTick
    \/ SetDeadline
    \/ LoopTest
    \/ Poll
    \/ SleepReturn

\* the clock advances, and the function and the kubectl it runs go on
SpecWait ==
    /\ InitWait
    /\ [][NextWait]_vars
    /\ WF_vars(WaitTick)
    /\ WF_vars(SetDeadline \/ LoopTest \/ Poll \/ SleepReturn)


----------------------------------------------------------------------------
(* The sensor of sensors.py.  fs.test_data is the directory TEST_DATA_PATH:
   None when it does not exist, else the set of the names of its entries.
   calls holds what the last evaluation yielded, loc.keys the run keys
   yielded so far for each name. *)

\* the entries a directory holds at most
MaxEntries == 3

TEST_DATA_PATH == <<"/","p","/","t","e","s","t","_","d","a","t","a">>

S_xml_file_ == <<"x","m","l","_","f","i","l","e","_">>

S_dot_xml == <<".","x","m","l">>

N_a_xml == <<"a",".","x","m","l">>

N_b_xml == <<"b",".","x","m","l">>

N_upper == <<"c",".","X","M","L">>

N_txt == <<"a",".","t","x","t">>

N_hidden == S_dot_xml

EntryNames == {N_a_xml, N_b_xml, N_upper, N_txt, N_hidden}

Directories == {d \in SUBSET EntryNames : Cardinality(d) <= MaxEntries}

\* fnmatch of a name against "*.xml": the name ends with ".xml"
MatchesXml(name) ==
    /\ Len(name) >= Len(S_dot_xml)
    /\ SubSeq(name, Len(name) - Len(S_dot_xml) + 1, Len(name)) = S_dot_xml

\* TEST_DATA_PATH.glob("*.xml"): the matching entries, in the order the
\* directory lists them, which is any
Glob(entries) ==
    LET matching == {n \in entries : MatchesXml(n)}
    IN  {order \in [1..Cardinality(matching) -> matching] :
            \A i, j \in DOMAIN order : order[i] = order[j] => i = j}

\* str(xml_file.absolute())
Absolute(name) == TEST_DATA_PATH \o <<"/">> \o name

SkipReason(text) == [event |-> "SkipReason", skip_message |-> text]

\* the run key made of the absolute path
RunKey_OfPath(name) == S_xml_file_ \o Absolute(name)

\* f"xml_file_{xml_file.name}"
RunKey(name) == S_xml_file_ \o name

\* RunRequest(run_key=..., run_config=RunConfig(ops={"sip_asset": {"config":
\* {"file_paths": [...]}}}))
RunRequest(name) ==
    [event |-> "RunRequest", run_key |-> RunKey(name),
     run_config |-> [ops |-> [sip_asset |-> [config |-> [file_paths |-> <<Absolute(name)>>]]]]]

InitSensor ==
    /\ NoPipeline
    /\ mono = 0
    /\ ret = None
    /\ cpc = "idle"
    /\ calls = <<>>
    /\ fs \in {[test_data |-> None]} \cup {[test_data |-> Some(d)] : d \in {{}, {N_a_xml}}}
    /\ loc = [keys |-> [n \in EntryNames |-> {}]]

\* one evaluation of xml_file_sensor: everything the generator yields
XmlFileSensor ==
    /\ cpc' = "xml_file_sensor"
    /\ IF fs.test_data = None
       THEN /\ calls' = <<SkipReason("Test data directory does not exist")>>
            /\ loc' = loc
       ELSE \E xml_files \in Glob(fs.test_data[1]) :
               IF xml_files = <<>>
               THEN /\ calls' = <<SkipReason("No XML files found in the test data directory")>>
                    /\ loc' = loc
               ELSE /\ calls' = [i \in DOMAIN xml_files |-> RunRequest(xml_files[i])]
                    /\ loc' = [loc EXCEPT !.keys =
                                 [n \in EntryNames |->
                                    IF \E i \in DOMAIN xml_files : xml_files[i] = n
                                    THEN @[n] \cup {RunKey(n)} ELSE @[n]]]
    /\ UNCHANGED <<pipelineVars, fs, mono, ret>>

\* between evaluations: an entry is put into the directory or taken away
ChangeEntry ==
    /\ fs.test_data # None
    /\ \E n \in EntryNames :
          LET d == IF n \in fs.test_data[1] THEN fs.test_data[1] \ {n}
                   ELSE fs.test_data[1] \cup {n}
          IN  /\ d \in Directories
              /\ fs' = [fs EXCEPT !.test_data = Some(d)]
    /\ cpc' = "idle"
    /\ UNCHANGED <<pipelineVars, mono, calls, ret, loc>>

\* between evaluations: the directory is removed, or made anew
ChangeDirectory ==
    /\ fs' = [fs EXCEPT !.test_data = IF @ = None THEN Some({}) ELSE None]
    /\ cpc' = "idle"
    /\ UNCHANGED <<pipelineVars, mono, calls, ret, loc>>

NextSensor ==
    \/ XmlFileSensor
    \/ ChangeEntry
    \/ ChangeDirectory

SpecSensor == InitSensor /\ [][NextSensor]_vars


----------------------------------------------------------------------------
(* The dap command line: the tool cache of utils/cache.py and the welcome
   command of commands/env.py.  fs holds the files of the working directory:
   fs.watched the content of each watched file, None when it is no file,
   fs.venv whether the directory .venv exists, fs.cache the content of
   .venv/.dap-tool-cache.json, None when it is no file.  cpc names the
   function that ran last, ret is its outcome, calls the collaborators that
   welcome called, loc.rows the argument of the running save_tool_cache and
   loc.saved the watched files as the last save_tool_cache found them. *)

\* the tools probed: the first MaxTools of Tools
MaxTools == 2

_WATCHED_FILES == <<"uv.lock", "flake.lock", "flake.nix">>

\* theme.FAIL, the mark of a tool that was not found
FAIL == "[error]x[/]"

Tools == <<"python", "ruff", "uv", "dap">>

\* the contents the watched files take
WatchedContents ==
    [n \in {"uv.lock", "flake.lock", "flake.nix"} |->
        CASE n = "uv.lock" -> {None, Some(<<>>), Some(<<"a">>)}
          [] n = "flake.lock" -> {None, Some(<<"a">>)}
          [] OTHER -> {Some(<<>>), Some(<<"n">>)}]

\* hashlib.sha256 over the bytes fed to it, taken to be free of collisions:
\* the digest stands for the bytes
Sha256(bytes) == [sha256 |-> bytes]

\* the bytes _compute_fingerprint feeds to the hash: of each watched file in
\* turn its content if it is a file, then a zero byte
RECURSIVE FingerprintBytes(_, _)
FingerprintBytes(watched, names) ==
    IF names = <<>> THEN <<>>
    ELSE (IF watched[Head(names)] # None THEN watched[Head(names)][1] ELSE <<>>)
         \o <<"\\x00">> \o FingerprintBytes(watched, Tail(names))

_compute_fingerprint(files) == Sha256(FingerprintBytes(files.watched, _WATCHED_FILES))

\* the values json.loads returns: a dict, a list, None
JDict(d) == [dict |-> d]

JList(l) == [list |-> l]

JNull == [null |-> TRUE]

\* a file that holds text, parsed the JSON value it holds, None when the
\* text is no JSON; json.loads(json.dumps(v)) is v for the dicts, lists,
\* strings and booleans that save_tool_cache writes
Text(parsed) == [text |-> parsed]

\* a file whose bytes are no UTF-8
Undecodable == [bytes |-> "not utf-8"]

\* the dict save_tool_cache writes for the rows: the third element of a row
\* is dropped, found says whether the version is not "not found"
CacheData(fingerprint, rows) ==
    JDict([fingerprint |-> fingerprint,
           tools |-> JList([i \in DOMAIN rows |->
                              JDict([name |-> rows[i][1], version |-> rows[i][2],
                                     found |-> rows[i][2] # "not found"])])])

\* the row load_tool_cache makes of one entry of "tools"
RowOf(t) == <<t.dict.name, t.dict.version, IF t.dict.found THEN "" ELSE FAIL>>

\* the list comprehension of line 42 over data["tools"]: the rows, or the
\* exception of the first entry that has no row
RECURSIVE RowsOf(_)
RowsOf(tools) ==
    IF tools = <<>> THEN Ok(<<>>)
    ELSE LET t == Head(tools)
         IN  IF "dict" \notin DOMAIN t THEN Raise("TypeError", "not subscriptable")
             ELSE IF {"name", "version", "found"} \ DOMAIN t.dict # {}
                  THEN Raise("KeyError", "name, version or found")
                  ELSE LET rest == RowsOf(Tail(tools))
                       IN  IF rest.ok THEN Ok(<<RowOf(t)>> \o rest.val) ELSE rest

\* load_tool_cache with the icons the other way round
load_tool_cache_IconOfFound(files) ==
    IF files.cache = None THEN Ok(None)
    ELSE LET data == files.cache[1].text[1]
             rows == RowsOf(data.dict.tools.list)
         IN  IF data.dict.fingerprint # _compute_fingerprint(files) THEN Ok(None)
             ELSE Ok(Some([i \in DOMAIN rows.val |->
                             <<rows.val[i][1], rows.val[i][2],
                               IF rows.val[i][3] = "" THEN FAIL ELSE "">>]))

\* load_tool_cache(): Ok(None), Ok(Some(rows)), or the exception that
\* leaves the function.  JSONDecodeError and KeyError are caught (line 43);
\* UnicodeDecodeError, AttributeError and TypeError are not.
load_tool_cache(files) ==
    IF files.cache = None THEN Ok(None)
    ELSE LET content == files.cache[1]
         IN  IF "bytes" \in DOMAIN content THEN Raise("UnicodeDecodeError", "invalid start byte")
             ELSE IF content.text = None THEN Ok(None)
             ELSE LET data == content.text[1]
                  IN  IF "dict" \notin DOMAIN data
                      THEN Raise("AttributeError", "object has no attribute 'get'")
                      ELSE IF "fingerprint" \notin DOMAIN data.dict
                              \/ data.dict.fingerprint # _compute_fingerprint(files)
                      THEN Ok(None)
                      ELSE IF "tools" \notin DOMAIN data.dict THEN Ok(None)
                      ELSE IF "list" \notin DOMAIN data.dict.tools
                      THEN Raise("TypeError", "object is not iterable")
                      ELSE LET rows == RowsOf(data.dict.tools.list)
                           IN  IF rows.ok THEN Ok(Some(rows.val))
                               ELSE IF rows.exc = "KeyError" THEN Ok(None)
                               ELSE rows

\* save_tool_cache(rows): the files after the call; the OSError of a write
\* below a directory .venv that does not exist is passed over (lines 55-59)
save_tool_cache(files, rows) ==
    IF files.venv
    THEN [files EXCEPT !.cache = Some(Text(Some(CacheData(_compute_fingerprint(files), rows))))]
    ELSE files

\* delete_tool_cache(): the files after the call
delete_tool_cache(files) ==
    IF files.cache # None THEN [files EXCEPT !.cache = None] ELSE files

\* a row of _tool_info: no icon when the tool was found
ToolInfoRow(name, ver) == <<name, ver, IF ver = "not found" THEN FAIL ELSE "">>

\* what _tool_info can return: each tool with a version or "not found"
ToolInfoRows ==
    {[i \in 1..MaxTools |-> ToolInfoRow(Tools[i], vers[i])] :
        vers \in [1..MaxTools -> {"1.0", "not found"}]}

\* the arguments of save_tool_cache: rows of _tool_info, rows of _tool_row
\* (with a path as third element), no row
SaveArgs ==
    ToolInfoRows
    \cup {<<>>, <<<<"python", "1.0", "/bin/python">>, <<"ruff", "not found", "">>>>}

\* what a cache file holds that save_tool_cache did not write, or not so:
\* no JSON, no UTF-8, JSON that is no object, an object without "tools", with
\* a null for "tools", or with an entry that lacks "found" or is a null
Corruptions(files) ==
    {Text(None), Undecodable, Text(Some(JList(<<>>))), Text(Some(JNull))}
    \cup (IF files.cache # None /\ load_tool_cache(files).ok
             /\ load_tool_cache(files).val # None
          THEN LET d == files.cache[1].text[1].dict
               IN  { Text(Some(JDict([fingerprint |-> d.fingerprint]))),
                     Text(Some(JDict([d EXCEPT !.tools = JNull]))),
                     Text(Some(JDict([d EXCEPT !.tools =
                         JList(<<JDict([name |-> "python", version |-> "1.0"])>>)]))),
                     Text(Some(JDict([d EXCEPT !.tools = JList(<<JNull>>)]))) }
          ELSE {})

InitCache ==
    /\ NoPipeline
    /\ mono = 0
    /\ fs \in {[watched |-> w, venv |-> v, cache |-> None] :
                  w \in {[n \in {"uv.lock", "flake.lock", "flake.nix"} |->
                            IF n = "flake.nix" THEN Some(<<"n">>) ELSE None]},
                  v \in {TRUE}}
    /\ cpc = "none"
    /\ calls = <<>>
    /\ ret = None
    /\ loc = [rows |-> <<>>, saved |-> None]

SaveToolCache ==
    /\ \E rows \in SaveArgs :
          /\ fs' = save_tool_cache(fs, rows)
          /\ loc' = [rows |-> rows, saved |-> Some(fs.watched)]
    /\ cpc' = "save_tool_cache"
    /\ ret' = Ok(None)
    /\ calls' = <<>>
    /\ UNCHANGED <<pipelineVars, mono>>

LoadToolCache ==
    /\ cpc' = "load_tool_cache"
    /\ ret' = load_tool_cache(fs)
    /\ loc' = [loc EXCEPT !.rows = <<>>]
    /\ calls' = <<>>
    /\ UNCHANGED <<pipelineVars, mono, fs>>

DeleteToolCache ==
    /\ cpc' = "delete_tool_cache"
    /\ fs' = delete_tool_cache(fs)
    /\ ret' = Ok(None)
    /\ loc' = [loc EXCEPT !.rows = <<>>]
    /\ calls' = <<>>
    /\ UNCHANGED <<pipelineVars, mono>>

\* a watched file is written, created or removed
EditWatched ==
    /\ \E n \in DOMAIN fs.watched : \E c \in WatchedContents[n] :
          /\ c # fs.watched[n]
          /\ fs' = [fs EXCEPT !.watched[n] = c]
    /\ cpc' = "edit"
    /\ ret' = None
    /\ loc' = [loc EXCEPT !.rows = <<>>]
    /\ calls' = <<>>
    /\ UNCHANGED <<pipelineVars, mono>>

\* the cache file is written by another hand
CorruptCache ==
    /\ fs.venv
    /\ \E c \in Corruptions(fs) : fs' = [fs EXCEPT !.cache = Some(c)]
    /\ cpc' = "corrupt"
    /\ ret' = None
    /\ loc' = [loc EXCEPT !.rows = <<>>]
    /\ calls' = <<>>
    /\ UNCHANGED <<pipelineVars, mono>>

\* clean(): delete_tool_cache(), then .venv is removed with all it holds
Clean ==
    /\ fs' = [delete_tool_cache(fs) EXCEPT !.venv = FALSE]
    /\ cpc' = "clean"
    /\ ret' = Some(0)
    /\ loc' = [loc EXCEPT !.rows = <<>>]
    /\ calls' = <<>>
    /\ UNCHANGED <<pipelineVars, mono>>

\* reset(): clean(), then uv sync, which makes .venv anew when it succeeds
Reset ==
    /\ \E code \in {0, 1} :
          /\ fs' = [delete_tool_cache(fs) EXCEPT !.venv = (code = 0)]
          /\ ret' = Some(code)
          /\ calls' = <<[fn |-> "run_passthrough", code |-> code]>>
    /\ cpc' = "reset"
    /\ loc' = [loc EXCEPT !.rows = <<>>]
    /\ UNCHANGED <<pipelineVars, mono>>

\* welcome that probes the tools whatever the cache holds
Welcome_AlwaysProbe ==
    /\ cpc' = "welcome"
    /\ LET loaded == load_tool_cache(fs)
       IN  IF ~loaded.ok
           THEN /\ calls' = <<[fn |-> "load_tool_cache"]>>
                /\ ret' = Some(1)
                /\ fs' = fs
                /\ loc' = [loc EXCEPT !.rows = <<>>]
           ELSE \E rows \in ToolInfoRows :
                   /\ calls' = <<[fn |-> "load_tool_cache"],
                                 [fn |-> "_tool_info", returned |-> rows],
                                 [fn |-> "save_tool_cache", rows |-> rows]>>
                   /\ fs' = save_tool_cache(fs, rows)
                   /\ loc' = [rows |-> <<>>, saved |-> Some(fs.watched)]
                   /\ ret' = Some(0)
    /\ UNCHANGED <<pipelineVars, mono>>

\* welcome(): the rows come from the cache, or from _tool_info and are then
\* saved; ret is the exit code of the command, 1 when an exception leaves it
Welcome ==
    /\ cpc' = "welcome"
    /\ LET loaded == load_tool_cache(fs)
       IN  IF ~loaded.ok
           THEN /\ calls' = <<[fn |-> "load_tool_cache"]>>
                /\ ret' = Some(1)
                /\ fs' = fs
                /\ loc' = [loc EXCEPT !.rows = <<>>]
           ELSE IF loaded.val = None
           THEN \E rows \in ToolInfoRows :
                   /\ calls' = <<[fn |-> "load_tool_cache"],
                                 [fn |-> "_tool_info", returned |-> rows],
                                 [fn |-> "save_tool_cache", rows |-> rows]>>
                   /\ fs' = save_tool_cache(fs, rows)
                   /\ loc' = [rows |-> <<>>, saved |-> Some(fs.watched)]
                   /\ ret' = Some(0)
           ELSE /\ calls' = <<[fn |-> "load_tool_cache"]>>
                /\ ret' = Some(0)
                /\ fs' = fs
                /\ loc' = [loc EXCEPT !.rows = <<>>]
    /\ UNCHANGED <<pipelineVars, mono>>

NextCache ==
    \/ SaveToolCache
    \/ LoadToolCache
    \/ DeleteToolCache
    \/ EditWatched
    \/ CorruptCache
    \/ Welcome
    \/ Clean
    \/ Reset

SpecCache == InitCache /\ [][NextCache]_vars


----------------------------------------------------------------------------
(* What the claims speak of, read off the source document and the state *)

Done == pc = "done"

ReturnedOk == Done /\ result.kind = "return"

RaisedParsingError == Done /\ result.kind = "raise" /\ result.exc = "METSParsingError"

\* the representations of the entity of the returned package
ReturnedReps == result.sip.intellectual_entities[1].representations

\* a text with a character that is no white space
NonBlank(t) == \E i \in 1..Len(t) : ~IsSpace(t[i])

IsIeDmd(dmd_sec) == "ID" \in DOMAIN dmd_sec.attrs /\ dmd_sec.attrs["ID"] = S_ie_dmd

HasIeDmd(r) == \E i \in DOMAIN r.dmdSecs : IsIeDmd(r.dmdSecs[i])

\* the section carries a non-empty dc:<tag>
HasDcField(dmd_sec, tag) ==
    /\ DcRecordOf(dmd_sec) # None
    /\ \E i \in DOMAIN DcRecordOf(dmd_sec)[1] :
          /\ DcRecordOf(dmd_sec)[1][i].tag = tag
          /\ NonBlank(DcRecordOf(dmd_sec)[1][i].text)

\* the file groups the loop of process_file_sections has been through
Processed == IF root = None THEN <<>> ELSE SubSeq(FileGrps, 1, grp - 1)

AdmidOf(el) == Get(el.attrs, "ADMID", <<>>)

\* the file elements of a group whose ADMID can stand in the XPath of line
\* 272: the lookup of any other raises and the file is skipped
KeptEls(g) == SelectSeq(g.files, LAMBDA f : XPathLiteralOk(AdmidOf(f)))

KeptGrps == SelectSeq(Processed, LAMBDA g : KeptEls(g) # <<>>)

\* the representations built so far are those of the groups that keep a
\* file, their files those kept, in document order
Aligned ==
    /\ Len(representation_list) = Len(KeptGrps)
    /\ \A j \in 1..Len(KeptGrps) :
          j <= Len(representation_list) =>
             Len(representation_list[j].files) = Len(KeptEls(KeptGrps[j]))

\* the pairs <<file element, FileRecord>> of the representations built so
\* far (defined when Aligned)
FilePairs ==
    UNION { { <<KeptEls(KeptGrps[j])[i], representation_list[j].files[i]>> :
                i \in 1..Len(representation_list[j].files) } :
            j \in 1..Len(representation_list) }

\* the declared size of a file element: the fileSize the administrative
\* map holds for its ADMID, None when it holds none
DeclaredSize(el) == GetOpt(Get(amd_map, AdmidOf(el), EmptyDict), "fileSize")

\* a declared size that is no number: blank, or with a character that is
\* no digit, sign, underscore or white space
NonNumeric(t) ==
    \/ ~NonBlank(t)
    \/ \E i \in 1..Len(t) : ~(IsDigit(t[i]) \/ IsSpace(t[i]) \/ t[i] \in {"+", "-", "_"})

\* the administrative section line 272 finds for a file element, None when
\* it finds none
ReferencedAmdSec(el) ==
    IF AdmidOf(el) = <<>> \/ ~XPathLiteralOk(AdmidOf(el)) THEN None
    ELSE IF WithID(root[1].amdSecs, AdmidOf(el)) = <<>> THEN None
         ELSE Some(WithID(root[1].amdSecs, AdmidOf(el))[1])

\* the fixity entries that section declares: the records of the fileFixity
\* section of its techMD, in document order
FixityEntries(el) ==
    LET sec == ReferencedAmdSec(el)
        tech_md == IF sec = None THEN None ELSE FindTechMD(sec[1])
        dnx == IF tech_md = None THEN None ELSE DnxOf(tech_md[1])
        found == IF dnx = None THEN <<>>
                 ELSE SelectSeq(dnx[1], LAMBDA x : Get(x.attrs, "id", "") = "fileFixity")
    IN  IF found = <<>> THEN <<>> ELSE found[1].records

\* the texts an entry gives for a key
EntryTexts(entry, key_id) ==
    {entry[i].text : i \in {k \in 1..Len(entry) : Get(entry[k].attrs, "id", "") = key_id}}

\* the entry declares an algorithm, and none that is a FixityType
Unrecognized(entry) ==
    /\ EntryTexts(entry, "fixityType") # {}
    /\ \A t \in EntryTexts(entry, "fixityType") : Upper(Strip(t)) \notin FixityType

\* the entry has a digest and an algorithm that is a FixityType
ValidEntry(entry) ==
    /\ \E t \in EntryTexts(entry, "fixityType") : Upper(Strip(t)) \in FixityType
    /\ \E t \in EntryTexts(entry, "fixityValue") : NonBlank(t)

\* the FixityRecord is the one of that entry
RecordOf(fx, entry, file_id) ==
    /\ ValidEntry(entry)
    /\ \E t \in EntryTexts(entry, "fixityType") : fx.fixity_type = Upper(Strip(t))
    /\ \E t \in EntryTexts(entry, "fixityValue") : fx.fixity_value = Strip(t)
    /\ fx.file_id = file_id

----------------------------------------------------------------------------
(* The claims *)

\* C1: every call of parse_mets_to_sip ends either returning a SIPModel
\* whose intellectual_entities holds exactly one IEModel, or raising
\* METSParsingError; no other exception leaves the call.
C1_OneOutcome ==
    Done => \/ (result.kind = "return" /\ Len(result.sip.intellectual_entities) = 1)
            \/ (result.kind = "raise" /\ result.exc = "METSParsingError")

\* C2: a well-formed document with a dmdSec "ie-dmd" holding a non-empty
\* dc:title parses, and the package holds exactly one entity, whatever its
\* file sections, file groups and administrative sections hold.
C2_TitledIeDmdParses ==
    (/\ Done
     /\ source.read = "ok"
     /\ \E i \in DOMAIN source.root.dmdSecs :
           IsIeDmd(source.root.dmdSecs[i]) /\ HasDcField(source.root.dmdSecs[i], "title"))
    => (result.kind = "return" /\ Len(result.sip.intellectual_entities) = 1)

\* C3: a document with no dmdSec whose ID is "ie-dmd" (a dmdSec without ID
\* attribute is none) ends in METSParsingError and returns no package; when
\* the file sections were processed, the error is the missing ie-dmd section.
C3_MissingIeDmdFails ==
    (Done /\ source.read = "ok" /\ ~HasIeDmd(source.root))
    => /\ RaisedParsingError
       /\ grp > Len(FileGrps) => result.cause.msg = "Missing required ie-dmd section"

\* C3 witness: the only dmdSec has a title and no ID; the parse ended with
\* the missing ie-dmd error.
C3_Witness ==
    /\ Done
    /\ source.read = "ok"
    /\ Len(source.root.dmdSecs) = 1
    /\ "ID" \notin DOMAIN source.root.dmdSecs[1].attrs
    /\ HasDcField(source.root.dmdSecs[1], "title")
    /\ RaisedParsingError
    /\ result.cause.msg = "Missing required ie-dmd section"

\* the section dmd_map holds for "ie-dmd": the last one of that ID
IeDmdSec == LET secs == SelectSeq(source.root.dmdSecs, IsIeDmd) IN secs[Len(secs)]

\* C4: entity assembly fails on Dublin Core grounds exactly when title,
\* identifier and type of the ie-dmd section are all empty: a section with
\* a non-empty value in one of the three is accepted, one with none is
\* rejected with METSParsingError.
C4_DcRejectedIffAllEmpty ==
    (Done /\ source.read = "ok" /\ HasIeDmd(source.root) /\ grp > Len(FileGrps))
    => IF \E tag \in {"title", "identifier", "type"} : HasDcField(IeDmdSec, tag)
       THEN result.kind = "return"
       ELSE /\ RaisedParsingError
            /\ result.cause.msg = "Missing required Dublin Core metadata"

\* C5: a file whose referenced administrative section declares a fixity
\* with an unrecognized algorithm is present in its representation, and
\* every FixityRecord of its list is the record of an entry with a digest and
\* a recognized algorithm: the unrecognized entry yields none.
C5_UnrecognizedFixityDropped ==
    /\ Aligned
    /\ \A p \in FilePairs :
          (\E i \in DOMAIN FixityEntries(p[1]) : Unrecognized(FixityEntries(p[1])[i]))
          => \A k \in DOMAIN p[2].fixities :
                \E i \in DOMAIN FixityEntries(p[1]) :
                   RecordOf(p[2].fixities[k], FixityEntries(p[1])[i], p[2].file_id)

\* C6: a file whose referenced section holds k fixity entries, each with a
\* digest and a recognized algorithm, gets exactly k FixityRecords, one per
\* entry, in document order.
C6_CompleteFixityList ==
    /\ Aligned
    /\ \A p \in FilePairs :
          (\A i \in DOMAIN FixityEntries(p[1]) : ValidEntry(FixityEntries(p[1])[i]))
          => /\ Len(p[2].fixities) = Len(FixityEntries(p[1]))
             /\ \A i \in DOMAIN FixityEntries(p[1]) :
                   RecordOf(p[2].fixities[i], FixityEntries(p[1])[i], p[2].file_id)

\* the ADMID of the group cannot stand in the XPath of line 378, or names
\* a section whose techMD declares no usage type
AdmidTrouble(g) ==
    \/ ~XPathLiteralOk(AdmidOf(g))
    \/ LET t == FirstTechMD(WithID(root[1].amdSecs, AdmidOf(g)))
       IN  t # None /\ "usageType" \notin DOMAIN parse_dnx_section(t[1], "generalRepCharacteristics")

\* C7: every representation has at least one file: the representations
\* are those of the groups that keep a file, so a group with no file element
\* or with only skipped ones yields none and the others stay; the parse
\* never fails in a group for want of files, and the returned package holds
\* exactly those representations.
C7_NoEmptyRepresentation ==
    /\ Aligned
    /\ \A j \in DOMAIN representation_list : Len(representation_list[j].files) >= 1
    /\ (Done /\ root # None /\ grp <= Len(FileGrps)) => AdmidTrouble(FileGrps[grp])
    /\ ReturnedOk => /\ Len(ReturnedReps) = Len(KeptGrps)
                     /\ \A j \in DOMAIN ReturnedReps : Len(ReturnedReps[j].files) >= 1

\* C7 witness: a package returned for two groups, the first with file
\* elements that were all skipped, the second kept.
C7_Witness ==
    /\ ReturnedOk
    /\ Len(FileGrps) = 2
    /\ FileGrps[1].files # <<>>
    /\ KeptEls(FileGrps[1]) = <<>>
    /\ Len(ReturnedReps) = 1
    /\ Len(ReturnedReps[1].files) = Len(FileGrps[2].files)

\* C8: the coercion of the representation type never fails: every
\* representation has a type of {preservation, access, original} and no
\* parse ends on the coercion, whatever the referenced section holds.
C8_UsageTypeNeverFails ==
    /\ \A j \in DOMAIN representation_list :
          representation_list[j].usage_type \in RepresentationType
    /\ ~(Done /\ result.kind = "raise" /\ result.cause.exc = "AttributeError")

C10_SizeNonNegative ==
    ReturnedOk =>
       \A j \in DOMAIN ReturnedReps :
          \A i \in DOMAIN ReturnedReps[j].files : ReturnedReps[j].files[i].size_bytes >= 0


----------------------------------------------------------------------------
(* Claims about the returned package and the assets derived from it *)

\* the files of a package, representation by representation
FilesOf(sip) ==
    Extend([i \in 1..Len(sip.intellectual_entities) |->
              Extend([j \in 1..Len(sip.intellectual_entities[i].representations) |->
                        sip.intellectual_entities[i].representations[j].files])])

\* a FixityRecord of a recognised algorithm with a non-empty value
SoundFixity(fx) == fx.fixity_type \in FixityType /\ Len(fx.fixity_value) > 0

\* the fixities of a list of files are sound and name the file that lists them
OwnFixities(files) ==
    \A m \in 1..Len(files) : \A n \in 1..Len(files[m].fixities) :
        /\ SoundFixity(files[m].fixities[n])
        /\ files[m].fixities[n].file_id = files[m].file_id

\* the files of a list that have the fixity's file_id and list the fixity
ListedBy(fx, files) ==
    {m \in 1..Len(files) :
        /\ files[m].file_id = fx.file_id
        /\ \E n \in 1..Len(files[m].fixities) : files[m].fixities[n] = fx}

\* the values of the assets files and fixities, once both are materialised
ChainDone == Upstream("files") /\ Upstream("fixities")

\* C11: in every returned package every FixityRecord has an algorithm of
\* FixityType, a non-empty value and the file_id of the FileRecord that lists
\* it; and in the lists of the assets files and fixities every FixityRecord
\* is sound and has exactly one file with its file_id that lists it.
C11_FixityOwnedByOneFile ==
    /\ ReturnedOk => OwnFixities(FilesOf(result.sip))
    /\ ChainDone =>
          LET files    == outputs["files"].val.value
              fixities == outputs["fixities"].val.value
          IN  /\ OwnFixities(files)
              /\ \A n \in 1..Len(fixities) :
                    /\ SoundFixity(fixities[n])
                    /\ Cardinality(ListedBy(fixities[n], files)) = 1

\* the part of C11 that speaks of one record and its owner
C11_Core ==
    /\ ReturnedOk => OwnFixities(FilesOf(result.sip))
    /\ ChainDone =>
          LET files    == outputs["files"].val.value
              fixities == outputs["fixities"].val.value
          IN  /\ OwnFixities(files)
              /\ \A n \in 1..Len(fixities) :
                    /\ SoundFixity(fixities[n])
                    /\ Cardinality(ListedBy(fixities[n], files)) >= 1


\* a later call of sip_asset's loop has returned, on the document of the
\* first path
ParsedAgain ==
    /\ apc = "additional"
    /\ ReturnedOk
    /\ file_paths[path_i] = file_paths[1]

\* the package the first call returned: the primary package with the one
\* entity it had before any extend
FirstPackage == [primary_sip[1] EXCEPT !.intellectual_entities = <<@[1]>>]

\* a package without SIPModel.creation_date
SansCreationDate(sip) == [sip EXCEPT !.creation_date = None]

\* C12: two calls of parse_mets_to_sip on the same document return packages
\* equal in every field of every nested record except SIPModel.creation_date.
C12_Idempotent ==
    ParsedAgain => SansCreationDate(result.sip) = SansCreationDate(FirstPackage)


\* the texts of the dc:<tag> elements of a section's record, as written
DeclaredDc(dmd_sec, tag) ==
    IF DcRecordOf(dmd_sec) = None THEN <<>>
    ELSE LET els == SelectSeq(DcRecordOf(dmd_sec)[1], LAMBDA e : e.tag = tag)
         IN  [i \in 1..Len(els) |-> els[i].text]

\* the document of the scenario, declaring nothing else that the parser
\* reads for the package, the entity or the representation: OBJID "SIP-001",
\* one ie-dmd section with the title "Report", one file group without ADMID
\* holding one file whose administrative section declares one fixity entry,
\* SHA-256 with the digest "deadbeef"
Scenario ==
    /\ source.read = "ok"
    /\ Get(source.root.attrs, "OBJID", <<>>) = T_SIP001
    /\ Len(SelectSeq(source.root.dmdSecs, IsIeDmd)) = 1
    /\ DeclaredDc(SelectSeq(source.root.dmdSecs, IsIeDmd)[1], "title") = <<T_Report>>
    /\ source.root.fileSec # None
    /\ Len(source.root.fileSec[1]) = 1
    /\ "ADMID" \notin DOMAIN source.root.fileSec[1][1].attrs
    /\ Len(source.root.fileSec[1][1].files) = 1
    /\ root # None
    /\ LET entries == FixityEntries(source.root.fileSec[1][1].files[1])
       IN  /\ Len(entries) = 1
           /\ EntryTexts(entries[1], "fixityType") = {T_sha256}
           /\ EntryTexts(entries[1], "fixityValue") = {T_deadbeef}

\* C13: the scenario document parses to the package "SIP-001" with exactly
\* one entity "IE-001" and exactly one representation of exactly one file,
\* whose fixity list is the one entry SHA-256 / "deadbeef".
C13_Scenario ==
    (Done /\ Scenario) =>
        /\ ReturnedOk
        /\ result.sip.sip_id = T_SIP001
        /\ Len(result.sip.intellectual_entities) = 1
        /\ result.sip.intellectual_entities[1].ie_id = S_IE \o <<"0","0","1">>
        /\ Len(ReturnedReps) = 1
        /\ Len(ReturnedReps[1].files) = 1
        /\ Len(ReturnedReps[1].files[1].fixities) = 1
        /\ ReturnedReps[1].files[1].fixities[1].fixity_type = T_sha256
        /\ ReturnedReps[1].files[1].fixities[1].fixity_value = T_deadbeef

\* the scenario document has been parsed, its techMD nested below the
\* administrative section
C13_Witness ==
    /\ Done
    /\ Scenario
    /\ ~source.root.amdSecs[1].techMDs[1].direct


\* the non-empty texts of the dc:<tag> elements of a section's record, in
\* document order, white space trimmed
SourceDc(dmd_sec, tag) ==
    LET texts == SelectSeq(DeclaredDc(dmd_sec, tag), NonBlank)
    IN  [i \in 1..Len(texts) |-> Strip(texts[i])]

\* the last descriptive section of the document with the identifier id
LastDmdSec(id) ==
    LET secs == SelectSeq(source.root.dmdSecs,
                          LAMBDA d : "ID" \in DOMAIN d.attrs /\ d.attrs["ID"] = id)
    IN  secs[Len(secs)]

\* C14: the record the extractor returns for a descriptive section holds,
\* for each of title, creator, type, identifier and rights, the non-empty
\* texts of the matching elements in document order; and the Dublin Core
\* record of the entity of the returned package carries the source values
\* of each of the five fields the ie-dmd section declares.
C14_DcFieldsCarried ==
    /\ \A id \in DOMAIN dmd_map : \A f \in DublinCoreFields :
          dmd_map[id][f] = SourceDc(LastDmdSec(id), f)
    /\ ReturnedOk =>
          \A f \in DublinCoreFields :
              SourceDc(IeDmdSec, f) # <<>> =>
                  result.sip.intellectual_entities[1].dc[f] = SourceDc(IeDmdSec, f)

\* the part of C14 that speaks of title, creator and rights
C14_ThreeFields ==
    /\ \A id \in DOMAIN dmd_map : \A f \in {"title", "creator", "rights"} :
          dmd_map[id][f] = SourceDc(LastDmdSec(id), f)
    /\ ReturnedOk =>
          \A f \in {"title", "creator", "rights"} :
              SourceDc(IeDmdSec, f) # <<>> =>
                  result.sip.intellectual_entities[1].dc[f] = SourceDc(IeDmdSec, f)


\* the FileRecord is the one of the file element: its declared identifier
\* and its administrative references
RecordOfEl(file, el) ==
    /\ file.adm_ids = Split(AdmidOf(el))
    /\ "ID" \in DOMAIN el.attrs => file.file_id = el.attrs["ID"]

LeadingPrefixReplaced(sip_id) ==
    IF StartsWithAt(sip_id, 1, S_SIP)
    THEN S_IE \o SubSeq(sip_id, Len(S_SIP) + 1, Len(sip_id))
    ELSE sip_id

\* C16: the identifier of the entity of a returned package is the package
\* identifier with its leading "SIP-" replaced by "IE-", the rest unchanged.
C16_LeadingPrefixOnly ==
    ReturnedOk =>
        result.sip.intellectual_entities[1].ie_id = LeadingPrefixReplaced(result.sip.sip_id)

\* the part of C16 that speaks of identifiers holding "SIP-" at most once,
\* at the start
C16_SinglePrefix ==
    (ReturnedOk /\ Replace(Tail(result.sip.sip_id), S_SIP, <<>>) = Tail(result.sip.sip_id)) =>
        result.sip.intellectual_entities[1].ie_id = LeadingPrefixReplaced(result.sip.sip_id)


\* a text str(uuid4()) returned
IsUuid(t) == \E n \in 0..9 : t = UuidStr(n)

NoDeclaredId(el) == "ID" \notin DOMAIN el.attrs

\* C17: the representation of a retained file group that declares no ID has
\* a generated UUID as identifier, and the representations of two such
\* groups of one document have distinct identifiers.
C17_UndeclaredRepIdIsUuid ==
    ReturnedOk =>
        /\ Aligned
        /\ \A j \in 1..Len(ReturnedReps) :
              NoDeclaredId(KeptGrps[j]) => IsUuid(ReturnedReps[j].rep_id)
        /\ \A j, k \in 1..Len(ReturnedReps) :
              (j # k /\ NoDeclaredId(KeptGrps[j]) /\ NoDeclaredId(KeptGrps[k]))
                  => ReturnedReps[j].rep_id # ReturnedReps[k].rep_id


----------------------------------------------------------------------------
(* Claims about concurrent calls *)

\* the loop of process_file_sections run to its end from the group g
RECURSIVE RunFileGrps(_, _, _, _, _, _)
RunFileGrps(r, amd, g, reps, n, now) ==
    LET grps == IF r.fileSec = None THEN <<>> ELSE r.fileSec[1]
    IN  IF g > Len(grps) THEN Ok(reps)
        ELSE LET one == ProcessFileGrp(r, amd, grps[g], n, now)
             IN  IF ~one.ok THEN one
                 ELSE RunFileGrps(r, amd, g + 1,
                                  IF one.val # None THEN Append(reps, one.val[1]) ELSE reps,
                                  n + Len(grps[g].files), now + 1)

\* how parse_mets_to_sip(src) ends when it runs alone, from start to end,
\* in a process that has drawn no uuid and whose clock reads 0
RunAlone(src) ==
    IF src.read # "ok"
    THEN IF src.read \in {"ParseError", "OSError"}
         THEN Raised("METSParsingError", "Failed to parse XML file", Raise(src.read, ""))
         ELSE Raised(src.read, "", Raise(src.read, ""))
    ELSE LET md   == extract_sip_metadata(src.root, src.stem)
             maps == parse_metadata_sections(src.root)
             reps == RunFileGrps(src.root, maps[2], 1, <<>>, 0, 1)
         IN  IF ~reps.ok
             THEN Raised("METSParsingError", "Failed to parse METS structure", reps)
             ELSE LET ie == build_ie_model(md[1], maps[1], maps[2], reps.val)
                  IN  IF ie.ok
                      THEN Returned(SIPModel(md[1], md[2], Some(0), <<ie.val>>))
                      ELSE Raised("METSParsingError", "Failed to parse METS structure", ie)

\* a text without the value uuid4() returned
BlindText(t) == IF IsUuid(t) THEN <<"u","u","i","d">> ELSE t

BlindFile(f) ==
    [f EXCEPT !.file_id = BlindText(@), !.label = BlindText(@),
              !.original_name = BlindText(@),
              !.fixities = [n \in 1..Len(@) |-> [@[n] EXCEPT !.file_id = BlindText(@)]]]

BlindRep(rep) ==
    [rep EXCEPT !.creation_date = None,
                !.files = [i \in 1..Len(@) |-> BlindFile(@[i])]]

BlindEntity(ie) ==
    [ie EXCEPT !.representations = [j \in 1..Len(@) |-> BlindRep(@[j])]]

\* the outcome of a call without the values it drew from uuid4() and from
\* the clock, which no two runs share
Blind(res) ==
    IF res.kind # "return" THEN res
    ELSE [res EXCEPT !.sip.creation_date = None,
                     !.sip.intellectual_entities =
                         [i \in 1..Len(@) |-> BlindEntity(@[i])]]

\* a call run alone ends as RunAlone says
RunAloneIsTheRun == Done => result = RunAlone(source)

\* C18: whatever the interleaving of two calls of parse_mets_to_sip, each
\* call ends as it ends when run alone (package or error), the values drawn
\* from uuid4() and the clock apart.
C18_NoInterference ==
    /\ Done => Blind(result) = Blind(RunAlone(source))
    /\ (other # NoFrame /\ other.pc = "done") =>
          Blind(other.result) = Blind(RunAlone(other.source))

\* two calls on different documents have both returned a package, and the
\* second began while the first was between two of its steps
C18_Witness ==
    /\ ReturnedOk
    /\ other # NoFrame
    /\ other.pc = "done"
    /\ other.result.kind = "return"
    /\ source # other.source
    /\ Len(ReturnedReps) >= 1
    /\ result.sip.creation_date[1] < other.result.sip.creation_date[1]
    /\ other.result.sip.creation_date[1] < ReturnedReps[1].creation_date[1]


----------------------------------------------------------------------------
(* Claims about mutations of a package *)

\* C19: after any sequence of mutations of a SIPModel, in-place growth of
\* its intellectual_entities list by append or extend included, every
\* element of the list is a validated IEModel: a mutation that would break
\* this is rejected.
C19_EntitiesStayValidated ==
    primary_sip # None =>
        \A i \in 1..Len(primary_sip[1].intellectual_entities) :
            IsIEModel(primary_sip[1].intellectual_entities[i])


----------------------------------------------------------------------------
(* Claims about sip_asset *)

\* every path of the list parses when parsed alone
AllParse == \A i \in 1..Len(file_paths) : RunAlone(file_paths[i]).kind = "return"

\* the number of entities of the package of each path, summed
RECURSIVE EntityCount(_)
EntityCount(paths) ==
    IF paths = <<>> THEN 0
    ELSE Len(RunAlone(Head(paths)).sip.intellectual_entities) + EntityCount(Tail(paths))

\* the entities of the packages of the paths, in path order, without the
\* values drawn from uuid4() and the clock
RECURSIVE EntitiesInPathOrder(_)
EntitiesInPathOrder(paths) ==
    IF paths = <<>> THEN <<>>
    ELSE LET ies == RunAlone(Head(paths)).sip.intellectual_entities
         IN  [i \in 1..Len(ies) |-> BlindEntity(ies[i])] \o EntitiesInPathOrder(Tail(paths))

\* C20: sip_asset over one or more paths that all parse produces an Output
\* whose value is the package of the first path with the entities of all
\* paths combined in path order, their number the sum of the per-file
\* numbers, and whose metadata report that number as "Intellectual Entity
\* Count", the entities' ids in the same order as "IE IDs" and the input
\* list as "File Paths".
C20_CombinedInPathOrder ==
    (Len(file_paths) >= 1 /\ AllParse) =>
        /\ apc # "failed"
        /\ apc = "materialized" =>
              LET out   == outputs["sip_asset"].val
                  first == RunAlone(file_paths[1]).sip
                  ies   == out.value.intellectual_entities
              IN  /\ outputs["sip_asset"].ok
                  /\ out.value.sip_id = first.sip_id
                  /\ out.value.submitting_agent = first.submitting_agent
                  /\ out.value.creation_date = first.creation_date
                  /\ [i \in 1..Len(ies) |-> BlindEntity(ies[i])] = EntitiesInPathOrder(file_paths)
                  /\ Len(ies) = EntityCount(file_paths)
                  /\ out.metadata["Intellectual Entity Count"] = Len(ies)
                  /\ out.metadata["IE IDs"] = IeIds(ies)
                  /\ out.metadata["File Paths"] = file_paths

\* the Output of sip_asset over two paths whose packages have entities of
\* different identifiers
C20_Witness ==
    /\ apc = "materialized"
    /\ Len(file_paths) = 2
    /\ outputs["sip_asset"].ok
    /\ Len(outputs["sip_asset"].val.metadata["IE IDs"]) = 2
    /\ outputs["sip_asset"].val.metadata["IE IDs"][1] # outputs["sip_asset"].val.metadata["IE IDs"][2]

\* the Output of sip_asset over the same path given twice
C20_SamePathTwice ==
    /\ apc = "materialized"
    /\ Len(file_paths) = 2
    /\ file_paths[1] = file_paths[2]
    /\ outputs["sip_asset"].val.metadata["Intellectual Entity Count"] = 2

----------------------------------------------------------------------------
(* Claims about the defaults of the entity's Dublin Core record *)

\* records build_ie_model accepts although the ie-dmd section has no title
UntitledRecords ==
    {DublinCore(<<>>, c, t, i, <<>>) :
        c \in {<<>>, <<T_ETH>>}, t \in {<<>>, <<T_Text>>}, i \in {<<>>, <<T_id>>}}
    \ {DublinCore(<<>>, c, <<>>, <<>>, <<>>) : c \in {<<>>, <<T_ETH>>}}

\* the entity of the returned package
ReturnedEntity == result.sip.intellectual_entities[1]

\* C21: in every returned package the title list and the identifier list of
\* the entity's Dublin Core record are non-empty: an empty source title is
\* replaced by ["Untitled"], an empty source identifier by the one-element
\* list holding the entity identifier; build_ie_model does the same for
\* every record it accepts without a title.
C21_TitleAndIdentifierNonEmpty ==
    /\ ReturnedOk =>
          /\ ReturnedEntity.dc.title # <<>>
          /\ ReturnedEntity.dc.identifier # <<>>
          /\ SourceDc(IeDmdSec, "title") = <<>>
                => ReturnedEntity.dc.title = <<S_Untitled>>
          /\ SourceDc(IeDmdSec, "identifier") = <<>>
                => ReturnedEntity.dc.identifier = <<ReturnedEntity.ie_id>>
    /\ \A dc \in UntitledRecords :
          LET built == build_ie_model(T_SIP001, DictSet(EmptyDict, S_ie_dmd, dc),
                                      EmptyDict, <<>>)
          IN  /\ built.ok
              /\ built.val.dc.title = <<S_Untitled>>
              /\ built.val.dc.identifier # <<>>

\* a package is returned for a document declaring a title and no identifier
C21_Witness ==
    /\ ReturnedOk
    /\ SourceDc(IeDmdSec, "title") # <<>>
    /\ SourceDc(IeDmdSec, "identifier") = <<>>
    /\ ReturnedEntity.dc.identifier = <<ReturnedEntity.ie_id>>

----------------------------------------------------------------------------
(* Claims about the files whose assembly fails *)

\* parse_file_element raises METSParsingError for the file element
Fails(el) == ~parse_file_element(el, amd_map, root[1], UuidStr(0)).ok

\* the file elements of a group whose assembly does not fail
Survivors(g) == SelectSeq(g.files, LAMBDA f : ~Fails(f))

\* the processed groups of which a file survives
SurvivingGrps == SelectSeq(Processed, LAMBDA g : Survivors(g) # <<>>)

\* a processed group holds a file element whose assembly fails
SomeFileFailed == \E j \in DOMAIN Processed : Survivors(Processed[j]) # Processed[j].files

\* C26: a file element whose assembly raises a structural error is skipped
\* without aborting: the parse does not end in the group, every other file
\* element of the group and every other group is still processed, and their
\* records are in the result, in the returned package too.
C26_FailedFileSkipped ==
    (root # None /\ pc \in {"files", "build", "done"} /\ SomeFileFailed) =>
        /\ Len(representation_list) = Len(SurvivingGrps)
        /\ \A j \in 1..Len(SurvivingGrps) :
              j <= Len(representation_list) =>
                 /\ representation_list[j].rep_id
                       = Get(SurvivingGrps[j].attrs, "ID", S_rep_unknown)
                 /\ Len(representation_list[j].files) = Len(Survivors(SurvivingGrps[j]))
                 /\ \A i \in 1..Len(Survivors(SurvivingGrps[j])) :
                       i <= Len(representation_list[j].files) =>
                          RecordOfEl(representation_list[j].files[i],
                                     Survivors(SurvivingGrps[j])[i])
        /\ ReturnedOk => ReturnedReps = representation_list

\* a package returned for two groups: the first file of one fails and its
\* second file is kept, and the other group is kept as well
C26_Witness ==
    /\ ReturnedOk
    /\ Len(FileGrps) = 2
    /\ \E j \in 1..2 : /\ Len(FileGrps[j].files) = 2
                       /\ Fails(FileGrps[j].files[1])
                       /\ ~Fails(FileGrps[j].files[2])
    /\ Len(ReturnedReps) = 2

----------------------------------------------------------------------------
(* Claims about a file's list of administrative references *)

\* the ADMID of the file element lists two or more identifiers
ListsSeveral(el) == Len(Split(AdmidOf(el))) >= 2

\* every identifier the ADMID lists names an indexed administrative section
AllIndexed(el) == \A i \in DOMAIN Split(AdmidOf(el)) : Split(AdmidOf(el))[i] \in DOMAIN amd_map

\* C30: parse_file_element looks up the whole ADMID string as one section
\* identifier while adm_ids is that string split on white space: the
\* FileRecord of a file whose ADMID lists two or more identifiers has the
\* file identifier as label and original name, the MIME type
\* application/octet-stream, the size 0 and no fixity, even when every
\* listed identifier names an indexed administrative section.
C30_WholeAdmidIsOneKey ==
    Aligned =>
        \A p \in FilePairs :
            /\ p[2].adm_ids = Split(AdmidOf(p[1]))
            /\ ListsSeveral(p[1]) =>
                  /\ p[2].label = p[2].file_id
                  /\ p[2].original_name = p[2].file_id
                  /\ p[2].mime_type = S_octet_stream
                  /\ p[2].original_path = None
                  /\ p[2].size_bytes = 0
                  /\ p[2].fixities = <<>>

\* a returned package with a file that lists two identifiers, both indexed,
\* the first declaring an original name, a size other than 0 and a fixity
\* that the file takes when it names that section alone
C30_Witness ==
    /\ ReturnedOk
    /\ Aligned
    /\ \E p \in FilePairs :
          /\ ListsSeveral(p[1])
          /\ AllIndexed(p[1])
          /\ p[2].adm_ids = <<ID_amd1, ID_amd2>>
          /\ "fileOriginalName" \in DOMAIN amd_map[ID_amd1]
          /\ "fileSize" \in DOMAIN amd_map[ID_amd1]
          /\ "fixityValue" \in DOMAIN amd_map[ID_amd1]
          /\ p[2].size_bytes = 0
    /\ \E q \in FilePairs :
          /\ AdmidOf(q[1]) = ID_amd1
          /\ q[2].size_bytes # 0
          /\ q[2].fixities # <<>>

----------------------------------------------------------------------------
(* Claims about the failures of sip_asset *)

\* sip_asset has produced an Output
SipAssetEmitted == "sip_asset" \in DOMAIN outputs /\ outputs["sip_asset"].ok

\* sip_asset has ended with an exception
SipAssetRaised == "sip_asset" \in DOMAIN outputs /\ ~outputs["sip_asset"].ok

\* C27: sip_asset produces an Output only when file_paths is non-empty and
\* every listed file parses: the empty list raises ValueError before any
\* parse is attempted, and the exception of the k-th file, the first that
\* fails to parse, leaves the asset after the k-1 files before it were
\* parsed, so that no Output is produced of them.
C27_OutputOnlyIfAllParse ==
    /\ SipAssetEmitted => (Len(file_paths) >= 1 /\ AllParse)
    /\ file_paths = <<>> =>
          /\ pc = "idle" /\ path_i = 0
          /\ apc # "start" =>
                (apc = "failed" /\ SipAssetRaised /\ outputs["sip_asset"].exc = "ValueError")
    /\ (file_paths # <<>> /\ ~AllParse) =>
          /\ apc \notin {"output", "materialized"}
          /\ \A i \in 1..Len(file_paths) :
                i < path_i => RunAlone(file_paths[i]).kind = "return"
          /\ apc = "failed" =>
                /\ SipAssetRaised
                /\ RunAlone(file_paths[path_i]).kind = "raise"
                /\ outputs["sip_asset"].exc = RunAlone(file_paths[path_i]).exc
                /\ pc = "done" /\ result.kind = "raise"

\* the second of two files fails with METSParsingError after the first was
\* parsed into the primary package: the asset ends with that exception
C27_Witness ==
    /\ apc = "failed"
    /\ Len(file_paths) = 2
    /\ path_i = 2
    /\ primary_sip # None
    /\ SipAssetRaised
    /\ outputs["sip_asset"].exc = "METSParsingError"

----------------------------------------------------------------------------
(* Claims about the check command *)

\* the programs and options check runs, in the order of the claim
CheckOrder == << <<"ruff", "check">>, <<"ruff", "format", "--check">>, <<"mypy">>, <<"pytest">> >>

\* the argument list begins with the words
BeginsWith(cmd, words) == Len(cmd) >= Len(words) /\ SubSeq(cmd, 1, Len(words)) = words

\* what holds of the steps check has run and of its exit code
CheckFailFast ==
    cpc = "check" =>
        /\ Len(calls) <= Len(CheckOrder)
        /\ \A i \in DOMAIN calls :
              /\ BeginsWith(calls[i].cmd, CheckOrder[i])
              /\ i < Len(calls) => calls[i].code = 0
        /\ ret # None => ret[1] \in {0, 1}
        /\ (ret = Some(1)) <=> (calls # <<>> /\ calls[Len(calls)].code # 0)
        /\ (ret = Some(0)) <=> (Len(calls) = Len(CheckOrder)
                                  /\ \A i \in DOMAIN calls : calls[i].code = 0)

\* C24: check runs ruff check, ruff format --check, mypy and pytest in that
\* order, a step only when every earlier step returned 0; at the first
\* failing step it exits with code 1 and runs no later step; it exits with
\* code 0 only after all four steps returned 0.
C24_CheckFailsFast ==
    /\ []CheckFailFast
    /\ [][(cpc = "check" /\ ret # None) => calls' = calls]_vars

\* check has stopped with code 1 at its third step, mypy, which returned a
\* code other than 0 and 1
C24_Witness ==
    /\ cpc = "check"
    /\ ret = Some(1)
    /\ Len(calls) = 3
    /\ calls[3].code = 2
    /\ calls[3].cmd[1] = "mypy"

----------------------------------------------------------------------------
(* Claims about _wait_for_pods *)

\* what holds of the polls, the status updates and the sleeps
WaitSafety ==
    /\ ret = Some(TRUE) =>
          /\ loc.polled /\ loc.pending = <<>>
          /\ loc.sleeps = 0 /\ loc.updates = 0
    /\ ret = Some(FALSE) =>
          /\ mono >= loc.start + 180
          /\ loc.polled => loc.pending # <<>>
    /\ (ret = None /\ loc.polled) =>
          /\ loc.pending # <<>>
          /\ loc.updates = 1
          /\ loc.sleeps = 1
          /\ loc.slept = {3}
          /\ cpc \in {"while", "poll"} => mono >= loc.since
    /\ (cpc = "poll" /\ loc.polled) => mono < loc.deadline + MaxLate + 1
    /\ cpc = "poll" => loc.deadline = loc.start + 180

C25_ReadyLater ==
    /\ ret = Some(TRUE)
    /\ mono >= loc.start + 3

----------------------------------------------------------------------------
(* Claims about xml_file_sensor *)

\* the names of the directory that end with ".xml"
XmlNames(dir) == {n \in dir : Len(n) >= 4 /\ SubSeq(n, Len(n) - 3, Len(n)) = <<".","x","m","l">>}

\* the events of the kind among those yielded
EventsOf(events, kind) == {i \in DOMAIN events : events[i].event = kind}

\* what an evaluation over the directory yields
YieldsFor(test_data, events) ==
    IF test_data = None \/ XmlNames(test_data[1]) = {}
    THEN /\ Cardinality(EventsOf(events, "SkipReason")) = 1
         /\ EventsOf(events, "RunRequest") = {}
    ELSE /\ EventsOf(events, "SkipReason") = {}
         /\ Len(events) = Cardinality(XmlNames(test_data[1]))
         /\ \A n \in XmlNames(test_data[1]) :
               \E i \in DOMAIN events :
                  /\ events[i].run_key = <<"x","m","l","_","f","i","l","e","_">> \o n
                  /\ events[i].run_config.ops.sip_asset.config.file_paths
                        = <<TEST_DATA_PATH \o <<"/">> \o n>>
                  /\ \A j \in DOMAIN events : events[j].run_key = events[i].run_key => j = i

\* C29: an evaluation of xml_file_sensor yields exactly one SkipReason and no
\* RunRequest when the directory does not exist or holds no *.xml file, else
\* no SkipReason and exactly one RunRequest per *.xml file, with the run key
\* "xml_file_<file name>" and the file_paths list holding only the file's
\* absolute path; a file has the same run key at every evaluation.
C29_OneRequestPerXmlFile ==
    /\ [][cpc' = "xml_file_sensor" => YieldsFor(fs.test_data, calls')]_vars
    /\ [](\A n \in EntryNames : Cardinality(loc.keys[n]) <= 1)

\* after two evaluations with a file in both, one evaluation yields two
\* RunRequests over a directory that holds two other entries as well
C29_Witness ==
    /\ cpc = "xml_file_sensor"
    /\ fs.test_data = Some({N_a_xml, N_b_xml, N_upper})
    /\ Len(calls) = 2
    /\ loc.keys[N_a_xml] # {}
    /\ loc.keys[N_hidden] # {}

----------------------------------------------------------------------------
(* Claims about the tool cache *)

\* the cache file holds what save_tool_cache writes: JSON text of an object
\* with a fingerprint and the list of the tools, each with name, version and
\* found
WellFormed(content) ==
    /\ "text" \in DOMAIN content
    /\ content.text # None
    /\ "dict" \in DOMAIN content.text[1]
    /\ {"fingerprint", "tools"} \subseteq DOMAIN content.text[1].dict
    /\ "list" \in DOMAIN content.text[1].dict.tools
    /\ \A i \in DOMAIN content.text[1].dict.tools.list :
          LET t == content.text[1].dict.tools.list[i]
          IN  "dict" \in DOMAIN t /\ {"name", "version", "found"} \subseteq DOMAIN t.dict

\* the cache file parses as JSON
ParsesAsJson(content) == "text" \in DOMAIN content /\ content.text # None

\* a watched file is not as the last save_tool_cache found it
ChangedSinceSave == loc.saved # None /\ loc.saved[1] # fs.watched

\* load_tool_cache has just returned rows
LoadedRows == cpc = "load_tool_cache" /\ ret.ok /\ ret.val # None

\* C22: load_tool_cache returns rows only when the cache file exists, parses
\* as JSON and holds the fingerprint of the watched files' current contents;
\* with no cache file, a corrupt cache file or a watched file changed since
\* the last save it returns None, and it never raises.
C22_LoadOnlyWhenValid ==
    cpc = "load_tool_cache" =>
        /\ ret.ok
        /\ LoadedRows =>
              /\ fs.cache # None
              /\ ParsesAsJson(fs.cache[1])
              /\ fs.cache[1].text[1].dict.fingerprint = _compute_fingerprint(fs)
        /\ (fs.cache = None \/ ~WellFormed(fs.cache[1]) \/ ChangedSinceSave) => ret = Ok(None)

\* the part of C22 that holds: rows only from a cache file that parses and
\* holds the current fingerprint; None with no cache file, with a file that
\* is no JSON, and with another fingerprint than the current one
C22_RowsOnlyWhenValid ==
    cpc = "load_tool_cache" =>
        /\ LoadedRows =>
              /\ fs.cache # None
              /\ WellFormed(fs.cache[1])
              /\ fs.cache[1].text[1].dict.fingerprint = _compute_fingerprint(fs)
        /\ (fs.cache = None \/ fs.cache[1] = Text(None)) => ret = Ok(None)
        /\ (fs.cache # None /\ WellFormed(fs.cache[1])
              /\ fs.cache[1].text[1].dict.fingerprint # _compute_fingerprint(fs)) => ret = Ok(None)

\* the rows a load returns for saved rows: names and versions as saved, the
\* icon empty unless the version is "not found"
Reloaded(rows) ==
    [i \in DOMAIN rows |->
        <<rows[i][1], rows[i][2], IF rows[i][2] = "not found" THEN "[error]x[/]" ELSE "">>]

\* what holds of delete_tool_cache: no cache file after it, no error, nothing
\* else touched, and None from the load that follows
DeleteRemoves ==
    /\ [][cpc' = "delete_tool_cache" =>
             /\ fs'.cache = None
             /\ ret' = Ok(None)
             /\ fs'.watched = fs.watched /\ fs'.venv = fs.venv]_vars
    /\ [][(cpc = "delete_tool_cache" /\ cpc' = "load_tool_cache") => ret' = Ok(None)]_vars

C23_DeleteWithoutFile ==
    /\ cpc = "delete_tool_cache"
    /\ fs.venv
    /\ loc.saved = None

----------------------------------------------------------------------------
(* Claims about the welcome command *)

\* the calls of the function among those welcome made
CallsOf(fn) == SelectSeq(calls, LAMBDA c : c.fn = fn)

\* C28: welcome probes the tools only on a cache miss: when load_tool_cache
\* returns rows, _tool_info is not called and nothing is saved; when it
\* returns None, _tool_info is called once and save_tool_cache once, with the
\* rows _tool_info returned; in both cases the exit code is 0.
C28_ProbeOnlyOnMiss ==
    [][cpc' = "welcome" =>
          LET loaded == load_tool_cache(fs)
          IN  /\ (loaded.ok /\ loaded.val # None) =>
                    /\ fs' = fs
                    /\ ret' = Some(0)
                    /\ \A i \in DOMAIN calls' :
                          calls'[i].fn \notin {"_tool_info", "save_tool_cache"}
              /\ (loaded.ok /\ loaded.val = None) =>
                    /\ ret' = Some(0)
                    /\ Len(SelectSeq(calls', LAMBDA c : c.fn = "_tool_info")) = 1
                    /\ Len(SelectSeq(calls', LAMBDA c : c.fn = "save_tool_cache")) = 1
                    /\ \E i, j \in DOMAIN calls' :
                          /\ i < j
                          /\ calls'[i].fn = "_tool_info"
                          /\ calls'[j].fn = "save_tool_cache"
                          /\ calls'[j].rows = calls'[i].returned]_vars

\* a welcome has used the rows of the cache that an earlier welcome saved
C28_Witness ==
    /\ cpc = "welcome"
    /\ ret = Some(0)
    /\ Len(calls) = 1
    /\ fs.cache # None
    /\ loc.saved = Some(fs.watched)

\* a welcome has probed the tools and saved the rows
C28_Miss ==
    /\ cpc = "welcome"
    /\ ret = Some(0)
    /\ Len(CallsOf("_tool_info")) = 1
    /\ Len(CallsOf("save_tool_cache")) = 1

====
